---- MODULE Spec2Model ----
(***************************************************************************)
(* A model of the hcl-lang decoder: hover, semantic tokens and value       *)
(* candidates over a parsed configuration body and a schema.               *)
(***************************************************************************)
EXTENDS Integers, Sequences, FiniteSets, TLC

VARIABLES
    doc,         \* the parsed file handed to LoadFile (an input)
    sch,         \* the root schema handed to SetSchema (an input)
    files,       \* Decoder.files: the set of registered file names
    rootSchema,  \* Decoder.rootSchema: NilBody until SetSchema
    result,      \* what the last query returned
    cin,         \* candidate generation: the attribute expression and constraints
    cout,        \* candidate generation: the candidates returned
    tin,         \* insertion text: the type
    tout,        \* insertion text: the text, its parse and its match
    rootSchemaMu, \* Decoder.rootSchemaMu: the readers and the writer holding it
    threads,     \* concurrent calls: the position of a query and of SetSchema
    ein,         \* expression matching: the expression and the constraints
    eout         \* expression matching: the hover content and the tokens

vars == <<doc, sch, files, rootSchema, result, cin, cout, tin, tout,
          rootSchemaMu, threads, ein, eout>>

(***************************************************************************)
(* cty types                                                               *)
(***************************************************************************)
String == [k |-> "string"]
Number == [k |-> "number"]
Bool == [k |-> "bool"]
DynamicPseudoType == [k |-> "dynamic"]
\* the zero value cty.Type{}
NoType == [k |-> "none"]
List(t) == [k |-> "list", elem |-> t]
Set(t) == [k |-> "set", elem |-> t]
Map(t) == [k |-> "map", elem |-> t]
Tuple(ts) == [k |-> "tuple", elems |-> ts]
Object(attrs) == [k |-> "object", attrs |-> attrs]

IsPrimitiveType(t) == t.k \in {"string", "number", "bool"}
IsListType(t) == t.k = "list"
IsSetType(t) == t.k = "set"
IsMapType(t) == t.k = "map"
IsTupleType(t) == t.k = "tuple"
IsObjectType(t) == t.k = "object"

RECURSIVE FriendlyName(_)
FriendlyName(t) ==
    CASE t.k = "string" -> "string"
      [] t.k = "number" -> "number"
      [] t.k = "bool" -> "bool"
      [] t.k = "dynamic" -> "dynamic"
      [] t.k = "list" -> "list of " \o FriendlyName(t.elem)
      [] t.k = "set" -> "set of " \o FriendlyName(t.elem)
      [] t.k = "map" -> "map of " \o FriendlyName(t.elem)
      [] t.k = "tuple" -> "tuple"
      [] t.k = "object" -> "object"
      [] OTHER -> "invalid"

\* the order Go's sort.Strings gives the names the model uses
NameOrder == <<"a", "b", "c", "d">>

RECURSIVE FilterSeq(_, _)
FilterSeq(s, keep) ==
    IF s = <<>> THEN <<>>
    ELSE (IF Head(s) \in keep THEN <<Head(s)>> ELSE <<>>) \o FilterSeq(Tail(s), keep)

sortedObjectAttrNames(t) == FilterSeq(NameOrder, DOMAIN t.attrs)

(***************************************************************************)
(* schema.ExprConstraints                                                  *)
(***************************************************************************)
LiteralTypeExpr(t) == [c |-> "LiteralTypeExpr", Type |-> t]
LiteralTypeOnly(t) == <<LiteralTypeExpr(t)>>

NoConstraint == [found |-> FALSE, Type |-> NoType]

\* the search for a constraint of a kind that keeps the last one found
firstConstraint_Last(constraints, i, kinds) ==
    LET found == {j \in i..Len(constraints) :
                     constraints[j].c = "LiteralTypeExpr" /\ constraints[j].Type.k \in kinds}
    IN  IF found = {} THEN NoConstraint
        ELSE [found |-> TRUE,
              Type |-> constraints[CHOOSE j \in found : \A k \in found : k <= j].Type]

RECURSIVE firstConstraint(_, _, _)
firstConstraint(constraints, i, kinds) ==
    IF i > Len(constraints) THEN NoConstraint
    ELSE IF constraints[i].c = "LiteralTypeExpr" /\ constraints[i].Type.k \in kinds
         THEN [found |-> TRUE, Type |-> constraints[i].Type]
         ELSE firstConstraint(constraints, i + 1, kinds)

listTypeLiteralConstraint(constraints) == firstConstraint(constraints, 1, {"list"})
setTypeLiteralConstraint(constraints) == firstConstraint(constraints, 1, {"set"})
tupleTypeLiteralConstraint(constraints) == firstConstraint(constraints, 1, {"tuple"})
objectTypeLiteralConstraint(constraints) == firstConstraint(constraints, 1, {"object"})
mapTypeLiteralConstraint(constraints) == firstConstraint(constraints, 1, {"map"})

\* literalExprForType matching any primitive type in place of Type.Equals
literalExprForTypeFrom_AnyPrimitive(exprType, constraints, i) ==
    LET found == {j \in i..Len(constraints) :
                     constraints[j].c = "LiteralTypeExpr" /\ IsPrimitiveType(constraints[j].Type)}
    IN  IF found = {} THEN NoConstraint
        ELSE [found |-> TRUE,
              Type |-> constraints[CHOOSE j \in found : \A k \in found : j <= k].Type]

RECURSIVE literalExprForTypeFrom(_, _, _)
literalExprForTypeFrom(exprType, constraints, i) ==
    IF i > Len(constraints) THEN NoConstraint
    ELSE IF constraints[i].c = "LiteralTypeExpr" /\ constraints[i].Type = exprType
         THEN [found |-> TRUE, Type |-> constraints[i].Type]
         ELSE literalExprForTypeFrom(exprType, constraints, i + 1)

literalExprForType(exprType, constraints) == literalExprForTypeFrom(exprType, constraints, 1)

(***************************************************************************)
(* hclsyntax expressions.  rng is the half-open byte range [s, e).         *)
(***************************************************************************)
Rng(s, e) == [s |-> s, e |-> e]
ContainsPos(r, pos) == r.s <= pos /\ pos < r.e

\* a cty value: its type, whether it is wholly known, and its rendering
Val(t, known, v) == [Type |-> t, known |-> known, v |-> v]

LiteralValueExpr(val, r) == [kind |-> "LiteralValueExpr", Val |-> val, rng |-> r]
TemplateExpr(parts, r) == [kind |-> "TemplateExpr", Parts |-> parts, rng |-> r]
TemplateWrapExpr(wrapped, r) == [kind |-> "TemplateWrapExpr", Wrapped |-> wrapped, rng |-> r]
TupleConsExpr(exprs, r) == [kind |-> "TupleConsExpr", Exprs |-> exprs, rng |-> r]
ObjectConsExpr(items, r) == [kind |-> "ObjectConsExpr", Items |-> items, rng |-> r]
ObjectConsItem(key, value) == [KeyExpr |-> key, ValueExpr |-> value]
\* every other expression node: a traversal, an index, a call, an operator
ScopeTraversalExpr(name, r) == [kind |-> "ScopeTraversalExpr", name |-> name, rng |-> r]
RelativeTraversalExpr(source, r) == [kind |-> "RelativeTraversalExpr", Source |-> source, rng |-> r]

\* ObjectConsKeyExpr.Value(nil): a naked identifier is a string, a quoted
\* string is a string, a literal is its own value, anything else is unknown
KeyValue(key) ==
    CASE key.kind = "ScopeTraversalExpr" -> Val(String, TRUE, key.name)
      [] key.kind = "LiteralValueExpr" -> key.Val
      [] key.kind = "TemplateExpr" /\ Len(key.Parts) = 1
            /\ key.Parts[1].kind = "LiteralValueExpr" -> key.Parts[1].Val
      [] OTHER -> Val(DynamicPseudoType, FALSE, "")

(***************************************************************************)
(* lang.SemanticToken                                                      *)
(***************************************************************************)
TokenAttrName == "attrName"
TokenBlockType == "blockType"
TokenBlockLabel == "blockLabel"
TokenBool == "bool"
TokenString == "string"
TokenNumber == "number"
TokenObjectKey == "objectKey"
TokenMapKey == "mapKey"
TokenModifierDependent == "dependent"
TokenModifierDeprecated == "deprecated"

SemanticToken(type, modifiers, r) == [Type |-> type, Modifiers |-> modifiers, Range |-> r]

\* the outcome of a token walk: the tokens, or a runtime panic
Toks(s) == [panic |-> FALSE, toks |-> s]
Panicked == [panic |-> TRUE, toks |-> <<>>]
Join(a, b) == IF a.panic \/ b.panic THEN Panicked ELSE Toks(a.toks \o b.toks)

(***************************************************************************)
(* Semantic tokens of an expression                                        *)
(***************************************************************************)
tokensForLiteralValueExpr(expr, valType) ==
    CASE valType = Bool -> Toks(<<SemanticToken(TokenBool, <<>>, expr.rng)>>)
      [] valType = String -> Toks(<<SemanticToken(TokenString, <<>>, expr.rng)>>)
      [] valType = Number -> Toks(<<SemanticToken(TokenNumber, <<>>, expr.rng)>>)
      [] OTHER -> Toks(<<>>)

\* cty's Type.TupleElementType(idx) indexes the element types and panics
\* when idx is out of range (idx counts from 0)
TupleElementTypeInRange(t, idx) == idx < Len(t.elems)

RECURSIVE tokenForTypedExpression(_, _)
RECURSIVE tokensForObjectItems(_, _, _)
RECURSIVE tokensForTupleElems(_, _, _)

tokensForObjectConsExpr(expr, exprType) ==
    IF IsObjectType(exprType) \/ IsMapType(exprType)
    THEN tokensForObjectItems(expr.Items, 1, exprType)
    ELSE Toks(<<>>)

tokensForTupleConsExpr(expr, exprType) == tokensForTupleElems(expr.Exprs, 1, exprType)

tokenForTypedExpression(expr, valType) ==
    CASE expr.kind = "LiteralValueExpr" ->
            IF IsPrimitiveType(valType)
            THEN tokensForLiteralValueExpr(expr, valType)
            ELSE Toks(<<>>)
      [] expr.kind = "ObjectConsExpr" -> tokensForObjectConsExpr(expr, valType)
      [] expr.kind = "TupleConsExpr" -> tokensForTupleConsExpr(expr, valType)
      [] OTHER -> Toks(<<>>)

\* the loop of tokensForObjectConsExpr over expr.Items, from item i
tokensForObjectItems(items, i, exprType) ==
    IF i > Len(items) THEN Toks(<<>>)
    ELSE LET item == items[i]
             key == KeyValue(item.KeyExpr)
             here ==
                 IF IsObjectType(exprType)
                 THEN IF key.known /\ key.Type = String /\ key.v \in DOMAIN exprType.attrs
                      THEN Join(Toks(<<SemanticToken(TokenObjectKey, <<>>, item.KeyExpr.rng)>>),
                                tokenForTypedExpression(item.ValueExpr, exprType.attrs[key.v]))
                      ELSE Toks(<<>>)
                 ELSE Join(Toks(<<SemanticToken(TokenMapKey, <<>>, item.KeyExpr.rng)>>),
                           tokenForTypedExpression(item.ValueExpr, exprType.elem))
         IN  Join(here, tokensForObjectItems(items, i + 1, exprType))

\* the loop of tokensForTupleConsExpr over expr.Exprs, from element i
tokensForTupleElems(exprs, i, exprType) ==
    IF i > Len(exprs) THEN Toks(<<>>)
    ELSE IF IsTupleType(exprType) /\ ~TupleElementTypeInRange(exprType, i - 1)
         THEN Panicked
         ELSE LET elemType ==
                      CASE IsListType(exprType) -> exprType.elem
                        [] IsSetType(exprType) -> exprType.elem
                        [] IsTupleType(exprType) -> exprType.elems[i]
                        [] OTHER -> NoType
              IN  Join(tokenForTypedExpression(exprs[i], elemType),
                       tokensForTupleElems(exprs, i + 1, exprType))

RECURSIVE tokensForConstrainedExpression(_, _)
tokensForConstrainedExpression(expr, constraints) ==
    CASE expr.kind = "TemplateExpr" ->
            IF Len(expr.Parts) = 1
            THEN tokensForConstrainedExpression(expr.Parts[1], constraints)
            ELSE Toks(<<>>)
      [] expr.kind = "TemplateWrapExpr" ->
            tokensForConstrainedExpression(expr.Wrapped, constraints)
      [] expr.kind = "TupleConsExpr" ->
            LET listLve == listTypeLiteralConstraint(constraints)
                setLve == setTypeLiteralConstraint(constraints)
                tupleLve == tupleTypeLiteralConstraint(constraints)
            IN  IF listLve.found THEN tokensForTupleConsExpr(expr, listLve.Type)
                ELSE IF setLve.found THEN tokensForTupleConsExpr(expr, setLve.Type)
                ELSE IF tupleLve.found THEN tokensForTupleConsExpr(expr, tupleLve.Type)
                ELSE Toks(<<>>)
      [] expr.kind = "ObjectConsExpr" ->
            LET objLve == objectTypeLiteralConstraint(constraints)
                mapLve == mapTypeLiteralConstraint(constraints)
            IN  IF objLve.found THEN tokensForObjectConsExpr(expr, objLve.Type)
                ELSE IF mapLve.found THEN tokensForObjectConsExpr(expr, mapLve.Type)
                ELSE Toks(<<>>)
      [] expr.kind = "LiteralValueExpr" ->
            LET valType == expr.Val.Type
            IN  IF ~literalExprForType(valType, constraints).found
                THEN Toks(<<>>)
                ELSE tokenForTypedExpression(expr, valType)
      [] OTHER -> Toks(<<>>)

(***************************************************************************)
(* Hover content of an expression.  A lang.MarkupContent is the sequence   *)
(* of the pieces of its markdown text; an empty err is a nil error.        *)
(***************************************************************************)
Markdown(pieces) == [err |-> "", md |-> pieces]
ExprError(msg) == [err |-> msg, md |-> <<>>]

\* the backquote of markdown code spans
Tick == "'"

RECURSIVE objectAttrLines(_, _)
objectAttrLines(t, names) ==
    IF names = <<>> THEN <<>>
    ELSE <<"  ", Head(names), " = ", FriendlyName(t.attrs[Head(names)]), "\n">>
         \o objectAttrLines(t, Tail(names))

hoverContentForValueAndType(val, t) ==
    IF IsPrimitiveType(t)
    THEN Markdown(<<Tick, val.v, Tick, " _", FriendlyName(t), "_">>)
    ELSE IF IsObjectType(t)
    THEN LET attrNames == sortedObjectAttrNames(t)
         IN  IF Len(attrNames) = 0
             THEN Markdown(<<FriendlyName(t)>>)
             ELSE Markdown(<<Tick, Tick, Tick, "\n{\n">> \o objectAttrLines(t, attrNames)
                           \o <<"}\n", Tick, Tick, Tick, "\n_object_">>)
    ELSE IF IsMapType(t) \/ IsListType(t) \/ IsSetType(t) \/ IsTupleType(t)
    THEN Markdown(<<"_", FriendlyName(t), "_">>)
    ELSE ExprError("unsupported type")

NullVal(t) == Val(t, TRUE, "null")

RECURSIVE hoverContentForExpr(_, _)
hoverContentForExpr(expr, constraints) ==
    CASE expr.kind = "TemplateExpr" /\ Len(expr.Parts) = 1 ->
            hoverContentForExpr(expr.Parts[1], constraints)
      [] expr.kind = "TemplateWrapExpr" ->
            hoverContentForExpr(expr.Wrapped, constraints)
      [] expr.kind = "TupleConsExpr" ->
            LET listLve == listTypeLiteralConstraint(constraints)
                setLve == setTypeLiteralConstraint(constraints)
                tupleLve == tupleTypeLiteralConstraint(constraints)
            IN  IF listLve.found THEN hoverContentForValueAndType(NullVal(listLve.Type), listLve.Type)
                ELSE IF setLve.found THEN hoverContentForValueAndType(NullVal(setLve.Type), setLve.Type)
                ELSE IF tupleLve.found THEN hoverContentForValueAndType(NullVal(tupleLve.Type), tupleLve.Type)
                ELSE ExprError("unsupported expression")
      [] expr.kind = "ObjectConsExpr" ->
            LET objLve == objectTypeLiteralConstraint(constraints)
                mapLve == mapTypeLiteralConstraint(constraints)
            IN  IF objLve.found THEN hoverContentForValueAndType(NullVal(objLve.Type), objLve.Type)
                ELSE IF mapLve.found THEN hoverContentForValueAndType(NullVal(mapLve.Type), mapLve.Type)
                ELSE ExprError("unsupported expression")
      [] expr.kind = "LiteralValueExpr" ->
            LET lve == literalExprForType(expr.Val.Type, constraints)
            IN  IF ~lve.found
                THEN ExprError("no schema for literal type")
                ELSE hoverContentForValueAndType(expr.Val, lve.Type)
      [] OTHER -> ExprError("unsupported expression")

(***************************************************************************)
(* The schema model                                                        *)
(***************************************************************************)
NilAttr == [isNil |-> TRUE]
AttributeSchema(expr, deprecated, description) ==
    [isNil |-> FALSE, Expr |-> expr, IsDeprecated |-> deprecated, Description |-> description]

LabelSchema(name, isDepKey, description) ==
    [Name |-> name, IsDepKey |-> isDepKey, Description |-> description]

NilBody == [isNil |-> TRUE]
BodySchema(attributes, anyAttribute, blocks, detail, description) ==
    [isNil |-> FALSE, Attributes |-> attributes, AnyAttribute |-> anyAttribute,
     Blocks |-> blocks, Detail |-> detail, Description |-> description]

BlockSchema(labels, body, dependentBody, deprecated, description) ==
    [Labels |-> labels, Body |-> body, DependentBody |-> dependentBody,
     IsDeprecated |-> deprecated, Description |-> description]

NoMap == [n \in {} |-> NilBody]

\* schema.NewSchemaKey: the order-independent form of the label dependency
\* keys, here the set of <<index, value>> pairs (index counts from 0)
NewSchemaKey(labelKeys) == labelKeys

\* the dependency keys of a block instance: one pair per label schema flagged
\* IsDepKey; not resolvable when the block has fewer labels than that index
dependencyKeysFromBlock(block, blockSchema) ==
    LET idx == {i \in 1..Len(blockSchema.Labels) : blockSchema.Labels[i].IsDepKey}
    IN  IF \E i \in idx : i > Len(block.Labels)
        THEN [ok |-> FALSE, key |-> {}]
        ELSE [ok |-> TRUE, key |-> NewSchemaKey({<<i - 1, block.Labels[i]>> : i \in idx})]

NotFound == [found |-> FALSE, schema |-> NilBody]

DependentBodySchema(blockSchema, dk) ==
    IF dk.ok /\ dk.key \in DOMAIN blockSchema.DependentBody
    THEN [found |-> TRUE, schema |-> blockSchema.DependentBody[dk.key]]
    ELSE NotFound

\* entries of the dependent schema win on a name collision, the block's own
\* body schema supplies the names the dependent schema does not declare
MergeMaps(dep, own) ==
    [n \in DOMAIN dep \cup DOMAIN own |-> IF n \in DOMAIN dep THEN dep[n] ELSE own[n]]

mergeBlockBodySchemas(block, blockSchema) ==
    LET dep == DependentBodySchema(blockSchema, dependencyKeysFromBlock(block, blockSchema))
        own == blockSchema.Body
    IN  IF ~dep.found THEN own
        ELSE IF own.isNil THEN dep.schema
        ELSE BodySchema(MergeMaps(dep.schema.Attributes, own.Attributes),
                        IF dep.schema.AnyAttribute.isNil THEN own.AnyAttribute
                        ELSE dep.schema.AnyAttribute,
                        MergeMaps(dep.schema.Blocks, own.Blocks),
                        own.Detail, own.Description)

(***************************************************************************)
(* The parsed document: hclsyntax.Body, Attribute and Block                *)
(***************************************************************************)
Attribute(name, nameRange, expr) ==
    [Name |-> name, NameRange |-> nameRange, Expr |-> expr,
     rng |-> Rng(nameRange.s, expr.rng.e)]

Block(type, typeRange, labels, labelRanges, openBrace, closeBrace, body) ==
    [Type |-> type, TypeRange |-> typeRange, Labels |-> labels, LabelRanges |-> labelRanges,
     OpenBraceRange |-> openBrace, CloseBraceRange |-> closeBrace, Body |-> body,
     rng |-> Rng(typeRange.s, closeBrace.e)]

Body(attributes, blocks, r) == [Attributes |-> attributes, Blocks |-> blocks, rng |-> r]

(***************************************************************************)
(* SemanticTokensInFile.  ord is the order in which this run iterates the  *)
(* attribute maps.                                                         *)
(***************************************************************************)
Modifiers(isDependent, isDeprecated) ==
    (IF isDependent THEN <<TokenModifierDependent>> ELSE <<>>)
    \o (IF isDeprecated THEN <<TokenModifierDeprecated>> ELSE <<>>)

RECURSIVE tokensForBody(_, _, _, _)
RECURSIVE tokensForAttributes(_, _, _, _)
RECURSIVE tokensForBlocks(_, _, _, _, _)
RECURSIVE tokensForLabels(_, _, _)

tokensForBody(body, bodySchema, isDependent, ord) ==
    IF bodySchema.isNil THEN Toks(<<>>)
    ELSE Join(tokensForAttributes(body, bodySchema, isDependent,
                                  FilterSeq(ord, DOMAIN body.Attributes)),
              tokensForBlocks(body, 1, bodySchema, isDependent, ord))

\* tokensForBody's attribute loop without the skip of an unknown attribute
tokensForAttributes_NoSkip(body, bodySchema, isDependent, names) ==
    IF names = <<>> THEN Toks(<<>>)
    ELSE LET name == Head(names)
             attr == body.Attributes[name]
             known == name \in DOMAIN bodySchema.Attributes
             attrSchema == IF known THEN bodySchema.Attributes[name] ELSE bodySchema.AnyAttribute
             here ==
                 IF ~known /\ bodySchema.AnyAttribute.isNil
                 THEN Toks(<<SemanticToken(TokenAttrName, Modifiers(isDependent, FALSE), attr.NameRange)>>)
                 ELSE Join(Toks(<<SemanticToken(TokenAttrName,
                                                Modifiers(isDependent, attrSchema.IsDeprecated),
                                                attr.NameRange)>>),
                           tokensForConstrainedExpression(attr.Expr, attrSchema.Expr))
         IN  Join(here, tokensForAttributes(body, bodySchema, isDependent, Tail(names)))

\* tokensForBody's attribute loop with the dependent modifier left out
tokensForAttributes_NoDependent(body, bodySchema, isDependent, names) ==
    IF names = <<>> THEN Toks(<<>>)
    ELSE LET name == Head(names)
             attr == body.Attributes[name]
             known == name \in DOMAIN bodySchema.Attributes
             attrSchema == IF known THEN bodySchema.Attributes[name] ELSE bodySchema.AnyAttribute
             here ==
                 IF ~known /\ bodySchema.AnyAttribute.isNil
                 THEN Toks(<<>>)
                 ELSE Join(Toks(<<SemanticToken(TokenAttrName,
                                                Modifiers(FALSE, attrSchema.IsDeprecated),
                                                attr.NameRange)>>),
                           tokensForConstrainedExpression(attr.Expr, attrSchema.Expr))
         IN  Join(here, tokensForAttributes(body, bodySchema, isDependent, Tail(names)))

\* the loop over body.Attributes, visiting the names in the order given
tokensForAttributes(body, bodySchema, isDependent, names) ==
    IF names = <<>> THEN Toks(<<>>)
    ELSE LET name == Head(names)
             attr == body.Attributes[name]
             known == name \in DOMAIN bodySchema.Attributes
             attrSchema == IF known THEN bodySchema.Attributes[name] ELSE bodySchema.AnyAttribute
             here ==
                 IF ~known /\ bodySchema.AnyAttribute.isNil
                 THEN Toks(<<>>)
                 ELSE Join(Toks(<<SemanticToken(TokenAttrName,
                                                Modifiers(isDependent, attrSchema.IsDeprecated),
                                                attr.NameRange)>>),
                           tokensForConstrainedExpression(attr.Expr, attrSchema.Expr))
         IN  Join(here, tokensForAttributes(body, bodySchema, isDependent, Tail(names)))

\* tokensForBody's label loop marking every label dependent
tokensForLabels_AllDependent(block, blockSchema, i) ==
    IF i > Len(block.LabelRanges) THEN <<>>
    ELSE (IF i > Len(blockSchema.Labels)
          THEN <<>>
          ELSE <<SemanticToken(TokenBlockLabel, Modifiers(TRUE, FALSE), block.LabelRanges[i])>>)
         \o tokensForLabels(block, blockSchema, i + 1)

\* the loop over block.LabelRanges, from label i
tokensForLabels(block, blockSchema, i) ==
    IF i > Len(block.LabelRanges) THEN <<>>
    ELSE (IF i > Len(blockSchema.Labels)
          THEN <<>>
          ELSE <<SemanticToken(TokenBlockLabel,
                               Modifiers(blockSchema.Labels[i].IsDepKey, FALSE),
                               block.LabelRanges[i])>>)
         \o tokensForLabels(block, blockSchema, i + 1)

\* tokensForBody's block loop walking the dependent body whatever the keys
tokensForBlocks_AnyKey(body, i, bodySchema, isDependent, ord) ==
    IF i > Len(body.Blocks) THEN Toks(<<>>)
    ELSE LET block == body.Blocks[i]
             here ==
                 IF block.Type \notin DOMAIN bodySchema.Blocks
                 THEN Toks(<<>>)
                 ELSE LET blockSchema == bodySchema.Blocks[block.Type]
                          table == blockSchema.DependentBody
                      IN  Join(Join(Toks(<<SemanticToken(TokenBlockType,
                                                         Modifiers(isDependent, blockSchema.IsDeprecated),
                                                         block.TypeRange)>>
                                         \o tokensForLabels(block, blockSchema, 1)),
                                    tokensForBody(block.Body, blockSchema.Body, FALSE, ord)),
                               IF DOMAIN table # {}
                               THEN tokensForBody(block.Body, table[CHOOSE k \in DOMAIN table : TRUE], TRUE, ord)
                               ELSE Toks(<<>>))
         IN  Join(here, tokensForBlocks(body, i + 1, bodySchema, isDependent, ord))

\* the loop over body.Blocks, from block i
tokensForBlocks(body, i, bodySchema, isDependent, ord) ==
    IF i > Len(body.Blocks) THEN Toks(<<>>)
    ELSE LET block == body.Blocks[i]
             here ==
                 IF block.Type \notin DOMAIN bodySchema.Blocks
                 THEN Toks(<<>>)
                 ELSE LET blockSchema == bodySchema.Blocks[block.Type]
                          dk == dependencyKeysFromBlock(block, blockSchema)
                          dep == DependentBodySchema(blockSchema, dk)
                      IN  Join(Join(Toks(<<SemanticToken(TokenBlockType,
                                                         Modifiers(isDependent, blockSchema.IsDeprecated),
                                                         block.TypeRange)>>
                                         \o tokensForLabels(block, blockSchema, 1)),
                                    tokensForBody(block.Body, blockSchema.Body, FALSE, ord)),
                               IF dep.found
                               THEN tokensForBody(block.Body, dep.schema, TRUE, ord)
                               ELSE Toks(<<>>))
         IN  Join(here, tokensForBlocks(body, i + 1, bodySchema, isDependent, ord))

\* sort.Slice by Range.Start.Byte.  The sort is not stable: every order of
\* the tokens that is ascending by start byte is a possible outcome.
RECURSIVE SortSlice(_)
SortSlice(idx) ==
    IF idx.rest = {} THEN {<<>>}
    ELSE LET low == {i \in idx.rest : \A j \in idx.rest : idx.toks[i].Range.s <= idx.toks[j].Range.s}
             firsts == {idx.toks[i] : i \in low}
         IN  UNION {LET i == CHOOSE j \in low : idx.toks[j] = t
                    IN  {<<t>> \o rest : rest \in SortSlice([idx EXCEPT !.rest = @ \ {i}])}
                    : t \in firsts}

sortByStart(tokens) == SortSlice([toks |-> tokens, rest |-> DOMAIN tokens])

(***************************************************************************)
(* HoverAtPos                                                              *)
(***************************************************************************)
NilHover == [isNil |-> TRUE]
HoverData(content, r) == [isNil |-> FALSE, Content |-> content, Range |-> r]

\* what a query returns: err is empty for a nil error
Ret(data) == [err |-> "", msg |-> <<>>, data |-> data]
PositionalError(msg) == [err |-> "PositionalError", msg |-> msg, data |-> NilHover]

\* the detail text synthesized from an attribute's constraints
detailForAttribute(schema) ==
    IF Len(schema.Expr) = 0 THEN "" ELSE FriendlyName(schema.Expr[1].Type)

\* the detail text synthesized for a block
detailForBlock(schema) == "Block"

hoverContentForAttribute(name, schema) ==
    <<"**", name, "** _", detailForAttribute(schema), "_">>
    \o (IF schema.Description # "" THEN <<"\n\n", schema.Description>> ELSE <<>>)

hoverContentForBlock(bType, schema) ==
    <<"**", bType, "** _", detailForBlock(schema), "_">>
    \o (IF schema.Description # "" THEN <<"\n\n", schema.Description>> ELSE <<>>)

\* hoverContentForLabel without its branch for a dependency key
hoverContentForLabel_LabelOnly(i, block, bSchema) ==
    LET value == block.Labels[i]
        labelSchema == bSchema.Labels[i]
    IN  <<"\"", value, "\"">>
        \o (IF labelSchema.Name # "" THEN <<" (", labelSchema.Name, ")">> ELSE <<>>)
        \o (IF labelSchema.Description # "" THEN <<"\n\n", labelSchema.Description>> ELSE <<>>)

hoverContentForLabel(i, block, bSchema) ==
    LET value == block.Labels[i]
        labelSchema == bSchema.Labels[i]
        dep == DependentBodySchema(bSchema, dependencyKeysFromBlock(block, bSchema))
    IN  IF labelSchema.IsDepKey /\ dep.found
        THEN <<Tick, value, Tick>>
             \o (IF dep.schema.Detail # "" THEN <<" ", dep.schema.Detail>>
                 ELSE IF labelSchema.Name # "" THEN <<" ", labelSchema.Name>> ELSE <<>>)
             \o (IF dep.schema.Description # "" THEN <<"\n\n", dep.schema.Description>>
                 ELSE IF labelSchema.Description # "" THEN <<"\n\n", labelSchema.Description>>
                 ELSE <<>>)
        ELSE <<"\"", value, "\"">>
             \o (IF labelSchema.Name # "" THEN <<" (", labelSchema.Name, ")">> ELSE <<>>)
             \o (IF labelSchema.Description # "" THEN <<"\n\n", labelSchema.Description>> ELSE <<>>)

\* inside the block, and not inside its body
isPosOutsideBody(block, pos) == ~ContainsPos(block.Body.rng, pos)

\* the first label range holding pos, 0 when none does
RECURSIVE labelAtPos(_, _, _)
labelAtPos(block, i, pos) ==
    IF i > Len(block.LabelRanges) THEN 0
    ELSE IF ContainsPos(block.LabelRanges[i], pos) THEN i
    ELSE labelAtPos(block, i + 1, pos)

RECURSIVE hoverAtPos(_, _, _)
RECURSIVE hoverInBlocks(_, _, _, _)

\* hoverAtPos's attribute branch without the AnyAttribute fallback
hoverInAttribute_NoFallback(attr, bodySchema, pos) ==
    IF attr.Name \notin DOMAIN bodySchema.Attributes
    THEN [done |-> TRUE, ret |-> PositionalError(<<"unknown attribute", attr.Name>>)]
    ELSE IF ContainsPos(attr.NameRange, pos)
    THEN [done |-> TRUE,
          ret |-> Ret(HoverData(hoverContentForAttribute(attr.Name, bodySchema.Attributes[attr.Name]),
                                attr.rng))]
    ELSE [done |-> FALSE, ret |-> Ret(NilHover)]

\* the body of the loop over body.Attributes for the attribute holding pos
hoverInAttribute(attr, bodySchema, pos) ==
    LET known == attr.Name \in DOMAIN bodySchema.Attributes
        aSchema == IF known THEN bodySchema.Attributes[attr.Name] ELSE bodySchema.AnyAttribute
    IN  IF ~known /\ bodySchema.AnyAttribute.isNil
        THEN [done |-> TRUE, ret |-> PositionalError(<<"unknown attribute", attr.Name>>)]
        ELSE IF ContainsPos(attr.NameRange, pos)
        THEN [done |-> TRUE,
              ret |-> Ret(HoverData(hoverContentForAttribute(attr.Name, aSchema), attr.rng))]
        ELSE IF ContainsPos(attr.Expr.rng, pos)
        THEN LET content == hoverContentForExpr(attr.Expr, aSchema.Expr)
             IN  [done |-> TRUE,
                  ret |-> IF content.err # ""
                          THEN PositionalError(<<content.err>>)
                          ELSE Ret(HoverData(content.md, attr.Expr.rng))]
        ELSE [done |-> FALSE, ret |-> Ret(NilHover)]

hoverOutside == PositionalError(<<"position outside of any attribute name, value or block">>)

\* the loop over body.Blocks, from block i
hoverInBlocks(body, i, bodySchema, pos) ==
    IF i > Len(body.Blocks) THEN hoverOutside
    ELSE LET block == body.Blocks[i]
         IN  IF ~ContainsPos(block.rng, pos)
             THEN hoverInBlocks(body, i + 1, bodySchema, pos)
             ELSE IF block.Type \notin DOMAIN bodySchema.Blocks
             THEN PositionalError(<<"unknown block type", block.Type>>)
             ELSE LET bSchema == bodySchema.Blocks[block.Type]
                      l == labelAtPos(block, 1, pos)
                  IN  IF ContainsPos(block.TypeRange, pos)
                      THEN Ret(HoverData(hoverContentForBlock(block.Type, bSchema), block.TypeRange))
                      ELSE IF l > 0
                      THEN IF l > Len(bSchema.Labels)
                           THEN PositionalError(<<"unexpected label", block.Labels[l]>>)
                           ELSE Ret(HoverData(hoverContentForLabel(l, block, bSchema),
                                              block.LabelRanges[l]))
                      ELSE IF isPosOutsideBody(block, pos)
                      THEN PositionalError(<<"position outside of body", block.Type>>)
                      ELSE hoverAtPos(block.Body, mergeBlockBodySchemas(block, bSchema), pos)

hoverAtPos(body, bodySchema, pos) ==
    IF bodySchema.isNil THEN Ret(NilHover)
    ELSE LET at == {n \in DOMAIN body.Attributes : ContainsPos(body.Attributes[n].rng, pos)}
             inAttr == IF at = {} THEN [done |-> FALSE, ret |-> Ret(NilHover)]
                       ELSE hoverInAttribute(body.Attributes[CHOOSE n \in at : TRUE], bodySchema, pos)
         IN  IF inAttr.done THEN inAttr.ret
             ELSE hoverInBlocks(body, 1, bodySchema, pos)

(***************************************************************************)
(* Documents.  A source text is a sequence of items; ParseConfig gives the *)
(* tree hclsyntax.ParseConfig returns for it, every node with its byte     *)
(* range.  Identifiers and labels are two bytes wide, an attribute is      *)
(* name, "=", expression, newline, a block is type, " label" per label,    *)
(* " {", newline, its items, "}", newline.                                 *)
(***************************************************************************)
RECURSIVE Shift(_, _)
Shift(e, d) ==
    LET r == Rng(e.rng.s + d, e.rng.e + d)
    IN  CASE e.kind = "TemplateExpr" ->
                [e EXCEPT !.rng = r, !.Parts = [i \in DOMAIN e.Parts |-> Shift(e.Parts[i], d)]]
          [] e.kind = "TemplateWrapExpr" -> [e EXCEPT !.rng = r, !.Wrapped = Shift(e.Wrapped, d)]
          [] e.kind = "TupleConsExpr" ->
                [e EXCEPT !.rng = r, !.Exprs = [i \in DOMAIN e.Exprs |-> Shift(e.Exprs[i], d)]]
          [] e.kind = "ObjectConsExpr" ->
                [e EXCEPT !.rng = r,
                          !.Items = [i \in DOMAIN e.Items |->
                                        ObjectConsItem(Shift(e.Items[i].KeyExpr, d),
                                                       Shift(e.Items[i].ValueExpr, d))]]
          [] e.kind = "RelativeTraversalExpr" -> [e EXCEPT !.rng = r, !.Source = Shift(e.Source, d)]
          [] OTHER -> [e EXCEPT !.rng = r]

SrcAttr(name, expr) == [item |-> "attr", Name |-> name, Expr |-> expr]
SrcBlock(type, labels, items) == [item |-> "block", Type |-> type, Labels |-> labels, Items |-> items]

RECURSIVE ParseItems(_, _)
ParseItems(items, p) ==
    IF items = <<>> THEN [Attributes |-> <<>>, Blocks |-> <<>>, end |-> p]
    ELSE LET it == Head(items)
         IN  IF it.item = "attr"
             THEN LET e == Shift(it.Expr, p + 3)
                      rest == ParseItems(Tail(items), e.rng.e + 1)
                  IN  [Attributes |-> (it.Name :> Attribute(it.Name, Rng(p, p + 2), e)) @@ rest.Attributes,
                       Blocks |-> rest.Blocks, end |-> rest.end]
             ELSE LET n == Len(it.Labels)
                      open == p + 3 * n + 3
                      inner == ParseItems(it.Items, open + 2)
                      close == inner.end
                      blk == Block(it.Type, Rng(p, p + 2), it.Labels,
                                   [i \in 1..n |-> Rng(p + 3 * i, p + 3 * i + 2)],
                                   Rng(open, open + 1), Rng(close, close + 1),
                                   Body(inner.Attributes, inner.Blocks, Rng(open, close + 1)))
                      rest == ParseItems(Tail(items), close + 2)
                  IN  [Attributes |-> rest.Attributes, Blocks |-> <<blk>> \o rest.Blocks,
                       end |-> rest.end]

ParseConfig(items) ==
    LET r == ParseItems(items, 0)
    IN  [syntax |-> TRUE, Body |-> Body(r.Attributes, r.Blocks, Rng(0, r.end))]

\* a file whose body is hcl.EmptyBody(), not an hclsyntax.Body
EmptyBodyFile == [syntax |-> FALSE, Body |-> Body(<<>>, <<>>, Rng(0, 0))]

\* the expressions of the documents: 1, "s" and [1,1]
ExprNumber == LiteralValueExpr(Val(Number, TRUE, "1"), Rng(0, 1))
ExprString == TemplateExpr(<<LiteralValueExpr(Val(String, TRUE, "s"), Rng(1, 2))>>, Rng(0, 3))
ExprPair ==
    TupleConsExpr(<<LiteralValueExpr(Val(Number, TRUE, "1"), Rng(1, 2)),
                    LiteralValueExpr(Val(Number, TRUE, "1"), Rng(3, 4))>>, Rng(0, 5))

\* the body of the blocks of the documents: a block before two attributes
InnerItems ==
    <<SrcBlock("resource", <<"x">>, <<SrcAttr("b", ExprNumber), SrcAttr("a", ExprNumber)>>),
      SrcAttr("b", ExprString),
      SrcAttr("a", ExprNumber)>>

RootItems ==
    {SrcAttr("a", ExprNumber),
     SrcAttr("c", ExprString),
     SrcBlock("resource", <<"x", "n">>, InnerItems),
     SrcBlock("resource", <<"y", "n">>, InnerItems),
     SrcBlock("resource", <<"x", "n", "z">>, <<SrcAttr("c", ExprNumber)>>),
     SrcBlock("resource", <<"x", "n">>, <<SrcAttr("b", ExprPair)>>),
     SrcBlock("resource", <<>>, <<SrcAttr("a", ExprString)>>),
     SrcBlock("other", <<"x">>, <<SrcAttr("a", ExprNumber)>>)}

\* the largest number of items of a document's root body
MaxItems == 2

SeqsUpTo(S, n) == UNION {[1..k -> S] : k \in 0..n}

DistinctAttrs(items) ==
    \A i, j \in DOMAIN items :
        (i # j /\ items[i].item = "attr" /\ items[j].item = "attr") => items[i].Name # items[j].Name

Docs ==
    {ParseConfig(items) : items \in {q \in SeqsUpTo(RootItems, MaxItems) : DistinctAttrs(q)}}
    \cup {EmptyBodyFile}

(***************************************************************************)
(* Schemas                                                                 *)
(***************************************************************************)
AttrNumber == AttributeSchema(LiteralTypeOnly(Number), FALSE, "")
AttrNumberDeprecated == AttributeSchema(LiteralTypeOnly(Number), TRUE, "a number")
AttrString == AttributeSchema(LiteralTypeOnly(String), FALSE, "")
AttrStringOrTuple ==
    AttributeSchema(<<LiteralTypeExpr(String), LiteralTypeExpr(Tuple(<<Number>>))>>, FALSE, "")

\* the schema of the block nested in a block's body
NestedBlockSchema(isDepKey) ==
    BlockSchema(<<LabelSchema("kind", isDepKey, "")>>,
                BodySchema("a" :> AttrNumber, NilAttr, NoMap, "", ""),
                NewSchemaKey({<<0, "x">>}) :> BodySchema("b" :> AttrNumber, NilAttr, NoMap, "", ""),
                FALSE, "")

OwnBody(isDepKey) ==
    BodySchema("a" :> AttrNumber, NilAttr, "resource" :> NestedBlockSchema(isDepKey), "", "")

\* a dependent body table keyed on label 0 = "x"
DependentAttr ==
    NewSchemaKey({<<0, "x">>}) :> BodySchema("b" :> AttrStringOrTuple, NilAttr, NoMap, "", "")

DependentNested(isDepKey) ==
    NewSchemaKey({<<0, "x">>}) :>
        BodySchema("a" :> AttrNumberDeprecated @@ "b" :> AttrStringOrTuple, NilAttr,
                   "resource" :> NestedBlockSchema(isDepKey), "instance", "a dependent body")

RootSchema(any, own, dep) ==
    BodySchema("a" :> AttrNumber, any,
               "resource" :> BlockSchema(<<LabelSchema("type", TRUE, "the type"),
                                           LabelSchema("name", FALSE, "the name")>>,
                                         own, dep, FALSE, "a resource"),
               "", "")

Schemas ==
    {RootSchema(NilAttr, NilBody, NoMap),
     RootSchema(NilAttr, NilBody, DependentAttr),
     RootSchema(NilAttr, OwnBody(TRUE), NoMap),
     RootSchema(NilAttr, OwnBody(TRUE), DependentNested(TRUE)),
     RootSchema(NilAttr, OwnBody(FALSE), DependentNested(FALSE)),
     RootSchema(NilAttr, OwnBody(TRUE), DependentNested(FALSE)),
     RootSchema(AttrString, OwnBody(TRUE), DependentAttr),
     RootSchema(AttrString, NilBody, DependentNested(TRUE)),
     RootSchema(AttrString, OwnBody(FALSE), NoMap)}

(***************************************************************************)
(* The decoder                                                             *)
(***************************************************************************)
FileName == "test.tf"

NoResult ==
    [op |-> "none", pos |-> 0, err |-> "", msg |-> <<>>, data |-> NilHover, tokens |-> <<>>]

Idle == <<<<>>, <<>>>>

Init ==
    /\ doc \in Docs
    /\ sch \in Schemas
    /\ files = {}
    /\ rootSchema = NilBody
    /\ result = NoResult
    /\ cin = Idle /\ cout = Idle /\ tin = Idle /\ tout = Idle
    /\ rootSchemaMu = Idle /\ threads = Idle /\ ein = Idle /\ eout = Idle

\* LoadFile("test.tf", doc)
LoadFile ==
    /\ result = NoResult
    /\ files' = files \cup {FileName}
    /\ UNCHANGED <<doc, sch, rootSchema, result, cin, cout, tin, tout, rootSchemaMu, threads, ein, eout>>

\* SetSchema(sch)
SetSchema ==
    /\ result = NoResult
    /\ rootSchema' = sch
    /\ UNCHANGED <<doc, sch, files, result, cin, cout, tin, tout, rootSchemaMu, threads, ein, eout>>

\* fileByName and bodyForFileAndPos: the error that ends the query, if any
fileError(filename) ==
    IF filename \notin files THEN "FileNotFoundError"
    ELSE IF ~doc.syntax THEN "UnknownFileFormatError"
    ELSE ""

\* HoverAtPos without its check of a nil root schema
HoverAtPos_NoNilCheck(filename, pos) ==
    LET ferr == fileError(filename)
        r == IF ferr # "" THEN [err |-> ferr, msg |-> <<>>, data |-> NilHover]
             ELSE hoverAtPos(doc.Body, rootSchema, pos)
    IN  /\ result = NoResult
        /\ result' = [op |-> "hover", pos |-> pos, err |-> r.err, msg |-> r.msg,
                      data |-> r.data, tokens |-> <<>>]
        /\ UNCHANGED <<doc, sch, files, rootSchema, cin, cout, tin, tout, rootSchemaMu, threads, ein, eout>>

HoverAtPos(filename, pos) ==
    LET ferr == fileError(filename)
        r == IF ferr # "" THEN [err |-> ferr, msg |-> <<>>, data |-> NilHover]
             ELSE IF rootSchema.isNil THEN [err |-> "NoSchemaError", msg |-> <<>>, data |-> NilHover]
             ELSE hoverAtPos(doc.Body, rootSchema, pos)
    IN  /\ result = NoResult
        /\ result' = [op |-> "hover", pos |-> pos, err |-> r.err, msg |-> r.msg,
                      data |-> r.data, tokens |-> <<>>]
        /\ UNCHANGED <<doc, sch, files, rootSchema, cin, cout, tin, tout, rootSchemaMu, threads, ein, eout>>

\* the orders a run may iterate an attribute map in
AttrOrders == {<<"a", "b", "c">>, <<"a", "c", "b">>, <<"b", "a", "c">>,
               <<"b", "c", "a">>, <<"c", "a", "b">>, <<"c", "b", "a">>}

\* the walk of SemanticTokensInFile before the sort
tokensInFile(ord) ==
    IF rootSchema.isNil THEN Toks(<<>>) ELSE tokensForBody(doc.Body, rootSchema, FALSE, ord)

\* SemanticTokensInFile without its sort.Slice
sortTokens_NoSort(tokens) == {tokens}

\* what SemanticTokensInFile returns for the tokens of the walk
sortTokens(tokens) == sortByStart(tokens)

SemanticTokensInFile(filename) ==
    LET ferr == fileError(filename)
    IN  /\ result = NoResult
        /\ \E ord \in AttrOrders :
              LET walk == IF ferr # "" THEN Toks(<<>>) ELSE tokensInFile(ord)
              IN  \E sorted \in sortTokens(walk.toks) :
                      result' = [op |-> "tokens", pos |-> 0,
                                 err |-> IF ferr # "" THEN ferr
                                         ELSE IF walk.panic THEN "panic" ELSE "",
                                 msg |-> <<>>, data |-> NilHover, tokens |-> sorted]
        /\ UNCHANGED <<doc, sch, files, rootSchema, cin, cout, tin, tout, rootSchemaMu, threads, ein, eout>>

\* the caller takes the result of its query
Return ==
    /\ result # NoResult
    /\ result' = NoResult
    /\ UNCHANGED <<doc, sch, files, rootSchema, cin, cout, tin, tout, rootSchemaMu, threads, ein, eout>>

Next ==
    \/ LoadFile
    \/ SetSchema
    \/ \E pos \in 0..doc.Body.rng.e : HoverAtPos(FileName, pos)
    \/ SemanticTokensInFile(FileName)
    \/ Return

Spec == Init /\ [][Next]_vars

(***************************************************************************)
(* Properties of the decoder                                               *)
(***************************************************************************)
Registered == FileName \in files /\ doc.syntax
TokensReturned == result.op = "tokens" /\ result.err = ""
HoverReturned == result.op = "hover" /\ Registered /\ ~rootSchema.isNil

IsDependentToken(t) == \E m \in DOMAIN t.Modifiers : t.Modifiers[m] = TokenModifierDependent

IsSorted(toks) == \A i, j \in DOMAIN toks : i < j => toks[i].Range.s <= toks[j].Range.s

\* every body of the document, at any depth
RECURSIVE AllBodies(_)
AllBodies(body) == {body} \cup UNION {AllBodies(body.Blocks[i].Body) : i \in DOMAIN body.Blocks}

\* every walk of a body with a schema that tokenizing the document makes:
\* the root body with the root schema, and the body of every recognized
\* block with the block's own body schema and with its matching dependent one
RECURSIVE Walks(_, _, _, _)
Walks(body, schema, isDep, path) ==
    IF schema.isNil THEN {}
    ELSE {[body |-> body, schema |-> schema, isDependent |-> isDep, path |-> path]}
         \cup UNION {LET b == body.Blocks[i]
                     IN  IF b.Type \notin DOMAIN schema.Blocks THEN {}
                         ELSE LET bs == schema.Blocks[b.Type]
                                  dep == DependentBodySchema(bs, dependencyKeysFromBlock(b, bs))
                              IN  Walks(b.Body, bs.Body, FALSE, Append(path, <<i, "own">>))
                                  \cup (IF dep.found
                                        THEN Walks(b.Body, dep.schema, TRUE, Append(path, <<i, "dep">>))
                                        ELSE {})
                     : i \in DOMAIN body.Blocks}

AllWalks == Walks(doc.Body, rootSchema, FALSE, <<>>)

Recognizes(schema, name) == name \in DOMAIN schema.Attributes \/ ~schema.AnyAttribute.isNil

\* the number of returned tokens of a type at a range
Count(type, r) ==
    Cardinality({i \in DOMAIN result.tokens :
                    result.tokens[i].Type = type /\ result.tokens[i].Range = r})

AttrPasses(bd, n) == Cardinality({w \in AllWalks : w.body = bd /\ Recognizes(w.schema, n)})
BlockPasses(bd, b) == Cardinality({w \in AllWalks : w.body = bd /\ b.Type \in DOMAIN w.schema.Blocks})
LabelPasses(bd, b, l) ==
    Cardinality({w \in AllWalks : /\ w.body = bd
                                  /\ b.Type \in DOMAIN w.schema.Blocks
                                  /\ l <= Len(w.schema.Blocks[b.Type].Labels)})

AtMostOne(n) == IF n > 0 THEN 1 ELSE 0

\* C1: the tokens SemanticTokensInFile returns are in non-decreasing order
\* of start byte
C1_TokensSorted == TokensReturned => IsSorted(result.tokens)

\* a returned list of tokens that the walk did not produce in order
C1_Witness ==
    /\ TokensReturned /\ Registered /\ ~rootSchema.isNil
    /\ Len(result.tokens) >= 3
    /\ \A ord \in AttrOrders : ~IsSorted(tokensInFile(ord).toks)

\* C2 as stated: one name, type or label token per recognized attribute,
\* block or label, none for an unrecognized one, and still one when the
\* own and the dependent body schema both recognize it
C2_ExactlyOneToken ==
    (TokensReturned /\ Registered) =>
        \A bd \in AllBodies(doc.Body) :
            /\ \A n \in DOMAIN bd.Attributes :
                  Count(TokenAttrName, bd.Attributes[n].NameRange) = AtMostOne(AttrPasses(bd, n))
            /\ \A i \in DOMAIN bd.Blocks :
                  /\ Count(TokenBlockType, bd.Blocks[i].TypeRange) = AtMostOne(BlockPasses(bd, bd.Blocks[i]))
                  /\ \A l \in DOMAIN bd.Blocks[i].LabelRanges :
                        Count(TokenBlockLabel, bd.Blocks[i].LabelRanges[l])
                            = AtMostOne(LabelPasses(bd, bd.Blocks[i], l))

\* C2 amended: one name, type or label token per walk of the enclosing body
\* whose schema recognizes the attribute, block or label; a body walked with
\* the own and with the dependent schema yields two when both recognize it
C2_OneTokenPerPass ==
    (TokensReturned /\ Registered) =>
        \A bd \in AllBodies(doc.Body) :
            /\ \A n \in DOMAIN bd.Attributes :
                  Count(TokenAttrName, bd.Attributes[n].NameRange) = AttrPasses(bd, n)
            /\ \A i \in DOMAIN bd.Blocks :
                  /\ Count(TokenBlockType, bd.Blocks[i].TypeRange) = BlockPasses(bd, bd.Blocks[i])
                  /\ \A l \in DOMAIN bd.Blocks[i].LabelRanges :
                        Count(TokenBlockLabel, bd.Blocks[i].LabelRanges[l])
                            = LabelPasses(bd, bd.Blocks[i], l)

\* tokens of a document with an attribute no walk recognizes, one that one
\* walk recognizes and one that two walks recognize, and a label beyond the
\* label schemas
C2_Witness ==
    /\ TokensReturned /\ Registered
    /\ \E bd \in AllBodies(doc.Body) : \E n \in DOMAIN bd.Attributes : AttrPasses(bd, n) = 0
    /\ \E bd \in AllBodies(doc.Body) : \E n \in DOMAIN bd.Attributes : AttrPasses(bd, n) = 1
    /\ \E bd \in AllBodies(doc.Body) : \E n \in DOMAIN bd.Attributes : AttrPasses(bd, n) = 2
    /\ \E bd \in AllBodies(doc.Body) : \E i \in DOMAIN bd.Blocks :
          /\ BlockPasses(bd, bd.Blocks[i]) = 1
          /\ \E l \in DOMAIN bd.Blocks[i].LabelRanges : LabelPasses(bd, bd.Blocks[i], l) = 0

\* the attribute whose name range holds pos, when every block around it is
\* recognized and the schema governing its body recognizes its name
NoAttr == [found |-> FALSE]
RECURSIVE AttrNameAt(_, _, _, _)
AttrNameAt(body, schema, pos, depth) ==
    IF schema.isNil THEN NoAttr
    ELSE LET named == {n \in DOMAIN body.Attributes : ContainsPos(body.Attributes[n].NameRange, pos)}
             inside == {i \in DOMAIN body.Blocks :
                           /\ ContainsPos(body.Blocks[i].Body.rng, pos)
                           /\ body.Blocks[i].Type \in DOMAIN schema.Blocks}
         IN  IF named # {}
             THEN LET n == CHOOSE m \in named : TRUE
                  IN  IF Recognizes(schema, n)
                      THEN [found |-> TRUE, attr |-> body.Attributes[n], depth |-> depth,
                            declared |-> n \in DOMAIN schema.Attributes,
                            schema |-> IF n \in DOMAIN schema.Attributes
                                       THEN schema.Attributes[n] ELSE schema.AnyAttribute]
                      ELSE NoAttr
             ELSE IF inside # {}
             THEN LET b == body.Blocks[CHOOSE i \in inside : TRUE]
                  IN  AttrNameAt(b.Body, mergeBlockBodySchemas(b, schema.Blocks[b.Type]), pos, depth + 1)
             ELSE NoAttr

\* C3: hover inside the name range of a recognized attribute returns the
\* hover data of that attribute and its schema, never a PositionalError
C3_HoverOnAttributeName ==
    HoverReturned =>
        LET a == AttrNameAt(doc.Body, rootSchema, result.pos, 0)
        IN  a.found =>
                /\ result.err = ""
                /\ ~result.data.isNil
                /\ result.data.Content = hoverContentForAttribute(a.attr.Name, a.schema)
                /\ result.data.Range = a.attr.rng

\* hover past the first byte of the name of an attribute two blocks deep
C3_Witness ==
    /\ HoverReturned
    /\ LET a == AttrNameAt(doc.Body, rootSchema, result.pos, 0)
       IN  a.found /\ a.depth = 2 /\ result.pos > a.attr.NameRange.s


\* the dependent body schema that walk w finds for block i of its body
DepOf(w, i) ==
    LET bs == w.schema.Blocks[w.body.Blocks[i].Type]
    IN  DependentBodySchema(bs, dependencyKeysFromBlock(w.body.Blocks[i], bs))

KnownBlock(w, i) == w.body.Blocks[i].Type \in DOMAIN w.schema.Blocks

\* the number of returned tokens of a type at a range with or without the
\* dependent modifier
CountDependent(type, r, dependent) ==
    Cardinality({i \in DOMAIN result.tokens :
                    /\ result.tokens[i].Type = type
                    /\ result.tokens[i].Range = r
                    /\ IsDependentToken(result.tokens[i]) = dependent})

\* C6: a label token carries the dependent modifier exactly when the label
\* schema at its index has IsDepKey set, whether or not the block's keys
\* matched a dependent body and whatever walk reached the enclosing body
C6_LabelDependentIffDepKey ==
    (TokensReturned /\ Registered) =>
        \A bd \in AllBodies(doc.Body) : \A i \in DOMAIN bd.Blocks :
            \A l \in DOMAIN bd.Blocks[i].LabelRanges : \A dependent \in BOOLEAN :
                CountDependent(TokenBlockLabel, bd.Blocks[i].LabelRanges[l], dependent)
                    = Cardinality({w \in AllWalks :
                                      /\ w.body = bd
                                      /\ KnownBlock(w, i)
                                      /\ l <= Len(w.schema.Blocks[bd.Blocks[i].Type].Labels)
                                      /\ w.schema.Blocks[bd.Blocks[i].Type].Labels[l].IsDepKey = dependent})

\* tokens of a document with a dependency-key label on a block whose keys
\* match nothing, and a label that is no dependency key on a block of a
\* body walked with a dependent schema
C6_Witness ==
    /\ TokensReturned /\ Registered
    /\ \E w \in AllWalks : \E i \in DOMAIN w.body.Blocks :
          /\ KnownBlock(w, i)
          /\ ~DepOf(w, i).found
          /\ w.body.Blocks[i].LabelRanges # <<>>
          /\ w.schema.Blocks[w.body.Blocks[i].Type].Labels[1].IsDepKey
    /\ \E w \in AllWalks : \E i \in DOMAIN w.body.Blocks :
          /\ w.isDependent
          /\ KnownBlock(w, i)
          /\ w.body.Blocks[i].LabelRanges # <<>>
          /\ ~w.schema.Blocks[w.body.Blocks[i].Type].Labels[1].IsDepKey

\* no walk that reaches block i of body bd finds a dependent body for it
NeverMatches(bd, i) ==
    \A w \in AllWalks : (w.body = bd /\ KnownBlock(w, i)) => ~DepOf(w, i).found

\* no schema a walk uses for the body of block i of body bd recognizes n
OwnUnknown(bd, i, n) ==
    \A w \in AllWalks : w.body = bd.Blocks[i].Body => ~Recognizes(w.schema, n)

InRange(inner, outer) == outer.s <= inner.s /\ inner.e <= outer.e

\* C7 as stated: a block whose keys match no dependent body has in its body
\* no token of an attribute only the dependent bodies declare and no token
\* with the dependent modifier; a block whose keys match has those
\* attributes present with the modifier
C7_NoDependentTokenInBody ==
    (TokensReturned /\ Registered) =>
        \A w \in AllWalks : \A i \in DOMAIN w.body.Blocks :
            KnownBlock(w, i) =>
                LET b == w.body.Blocks[i]
                IN  /\ NeverMatches(w.body, i) =>
                          /\ \A n \in DOMAIN b.Body.Attributes :
                                OwnUnknown(w.body, i, n)
                                    => Count(TokenAttrName, b.Body.Attributes[n].NameRange) = 0
                          /\ \A t \in DOMAIN result.tokens :
                                InRange(result.tokens[t].Range, b.Body.rng)
                                    => ~IsDependentToken(result.tokens[t])
                    /\ DepOf(w, i).found =>
                          \A n \in DOMAIN b.Body.Attributes :
                              Recognizes(DepOf(w, i).schema, n)
                                  => CountDependent(TokenAttrName, b.Body.Attributes[n].NameRange, TRUE) > 0

\* C7 amended: a block whose keys match no dependent body has no token of an
\* attribute only the dependent bodies declare, and the name tokens of its
\* body's own attributes and the type tokens of its body's own blocks carry
\* no dependent modifier; a block whose keys match has the attributes of the
\* dependent body present with the modifier
C7_NoDependentPassTokens ==
    (TokensReturned /\ Registered) =>
        \A w \in AllWalks : \A i \in DOMAIN w.body.Blocks :
            KnownBlock(w, i) =>
                LET b == w.body.Blocks[i]
                IN  /\ NeverMatches(w.body, i) =>
                          /\ \A n \in DOMAIN b.Body.Attributes :
                                /\ OwnUnknown(w.body, i, n)
                                      => Count(TokenAttrName, b.Body.Attributes[n].NameRange) = 0
                                /\ CountDependent(TokenAttrName, b.Body.Attributes[n].NameRange, TRUE) = 0
                          /\ \A j \in DOMAIN b.Body.Blocks :
                                CountDependent(TokenBlockType, b.Body.Blocks[j].TypeRange, TRUE) = 0
                    /\ DepOf(w, i).found =>
                          \A n \in DOMAIN b.Body.Attributes :
                              Recognizes(DepOf(w, i).schema, n)
                                  => CountDependent(TokenAttrName, b.Body.Attributes[n].NameRange, TRUE) > 0

\* tokens of a document with a block whose keys match no entry of a
\* non-empty dependent-body table and whose body has an attribute that only
\* the dependent bodies declare, and a block whose keys match
C7_Witness ==
    /\ TokensReturned /\ Registered
    /\ \E w \in AllWalks : \E i \in DOMAIN w.body.Blocks :
          /\ KnownBlock(w, i)
          /\ NeverMatches(w.body, i)
          /\ DOMAIN w.schema.Blocks[w.body.Blocks[i].Type].DependentBody # {}
          /\ \E n \in DOMAIN w.body.Blocks[i].Body.Attributes :
                /\ OwnUnknown(w.body, i, n)
                /\ \E k \in DOMAIN w.schema.Blocks[w.body.Blocks[i].Type].DependentBody :
                      Recognizes(w.schema.Blocks[w.body.Blocks[i].Type].DependentBody[k], n)
    /\ \E w \in AllWalks : \E i \in DOMAIN w.body.Blocks :
          /\ KnownBlock(w, i)
          /\ DepOf(w, i).found
          /\ \E n \in DOMAIN w.body.Blocks[i].Body.Attributes : Recognizes(DepOf(w, i).schema, n)

ValueTokenTypes == {TokenBool, TokenString, TokenNumber, TokenObjectKey, TokenMapKey}

\* the tokens of the walk of a body with a dependent schema
DependentPass(w, ord) == tokensForBody(w.body, w.schema, TRUE, ord).toks

\* C8 as stated: every token of the walk of a body with its matching
\* dependent schema carries the dependent modifier
C8_AllDependent ==
    (TokensReturned /\ Registered) =>
        \A w \in AllWalks : w.isDependent =>
            \A ord \in AttrOrders :
                \A t \in DOMAIN DependentPass(w, ord) : IsDependentToken(DependentPass(w, ord)[t])

\* C8 amended: of the tokens of the walk of a body with its matching
\* dependent schema, the name tokens of the body's own attributes and the
\* type tokens of the body's own blocks carry the dependent modifier, and
\* the tokens of value expressions carry no modifier
C8_NamesAndTypesDependent ==
    (TokensReturned /\ Registered) =>
        \A w \in AllWalks : w.isDependent =>
            \A ord \in AttrOrders :
                \A t \in DOMAIN DependentPass(w, ord) :
                    LET tok == DependentPass(w, ord)[t]
                    IN  /\ (/\ tok.Type = TokenAttrName
                            /\ \E n \in DOMAIN w.body.Attributes : w.body.Attributes[n].NameRange = tok.Range)
                               => IsDependentToken(tok)
                        /\ (/\ tok.Type = TokenBlockType
                            /\ \E i \in DOMAIN w.body.Blocks : w.body.Blocks[i].TypeRange = tok.Range)
                               => IsDependentToken(tok)
                        /\ tok.Type \in ValueTokenTypes => tok.Modifiers = <<>>

\* tokens of a document where a body walked with its dependent schema has a
\* recognized attribute with a value token and a recognized nested block
C8_Witness ==
    /\ TokensReturned /\ Registered
    /\ \E w \in AllWalks :
          /\ w.isDependent
          /\ \E n \in DOMAIN w.body.Attributes : Recognizes(w.schema, n)
          /\ \E i \in DOMAIN w.body.Blocks : KnownBlock(w, i)
          /\ \E t \in DOMAIN DependentPass(w, <<"a", "b", "c">>) :
                DependentPass(w, <<"a", "b", "c">>)[t].Type \in ValueTokenTypes

\* C9 as stated: SemanticTokensInFile on a registered document with a
\* schema installed never fails because of the document's content
C9_TokensNeverFail ==
    (result.op = "tokens" /\ Registered /\ ~rootSchema.isNil) => result.err = ""

\* C10 as stated: a query on a registered document while no root schema is
\* installed returns the no-schema error, for both operations
C10_NoSchemaError ==
    (result.op \in {"hover", "tokens"} /\ Registered /\ rootSchema.isNil)
        => result.err = "NoSchemaError"

\* C10 amended: while no root schema is installed, HoverAtPos on a registered
\* document returns the no-schema error, and SemanticTokensInFile returns an
\* empty list of tokens and no error
C10_NoSchemaHoverOnly ==
    (Registered /\ rootSchema.isNil) =>
        /\ result.op = "hover" => (result.err = "NoSchemaError" /\ result.data.isNil)
        /\ result.op = "tokens" => (result.err = "" /\ result.tokens = <<>>)

\* a hover inside a registered document with items, before any schema is set
C10_Witness ==
    /\ result.op = "hover" /\ Registered /\ rootSchema.isNil
    /\ result.pos > 0 /\ doc.Body.Blocks # <<>>

(***************************************************************************)
(* Expression candidates.  Text is a sequence of one-character strings.    *)
(***************************************************************************)
NL == "\n"
DQ == "\""
\* stands for the horizontal ellipsis of labelForType
Ellipsis == "~"

DigitChars == <<"0", "1", "2", "3", "4", "5", "6", "7", "8", "9">>

\* fmt.Sprintf("%d", n)
RECURSIVE FormatUint(_)
FormatUint(n) ==
    IF n < 10 THEN <<DigitChars[n + 1]>>
    ELSE FormatUint(n \div 10) \o <<DigitChars[(n % 10) + 1]>>

\* fmt.Sprintf("%t", b)
FormatBool(b) == IF b THEN <<"t", "r", "u", "e">> ELSE <<"f", "a", "l", "s", "e">>

False == Val(Bool, TRUE, FALSE)
True == Val(Bool, TRUE, TRUE)

Candidate(label, detail, description, newText, snippet, r) ==
    [Label |-> label, Detail |-> detail, Description |-> description,
     Kind |-> "LiteralValueCandidateKind",
     NewText |-> newText, Snippet |-> snippet, Range |-> r]

ZeroCandidates == [List |-> <<>>, IsComplete |-> TRUE]
\* lang.NewCandidates(): what the caller holds before the query answers
NewCandidates == [List |-> <<>>, IsComplete |-> FALSE]

RECURSIVE newTextForType(_)
RECURSIVE newTextForObjectAttrs(_, _)
RECURSIVE newTextForTupleElems(_)

\* the loop over the sorted attribute names of an object type
newTextForObjectAttrs(t, names) ==
    IF names = <<>> THEN <<>>
    ELSE <<" ", " ", Head(names), " ", "=", " ">> \o newTextForType(t.attrs[Head(names)]) \o <<NL>>
         \o newTextForObjectAttrs(t, Tail(names))

\* the loop over the element types of a tuple type
newTextForTupleElems(elTypes) ==
    IF elTypes = <<>> THEN <<>>
    ELSE newTextForType(Head(elTypes)) \o newTextForTupleElems(Tail(elTypes))

\* newTextForType with a list or a set written the way a tuple is
newTextForType_ListAsTuple(attrType) ==
    CASE attrType = String -> <<DQ, DQ>>
      [] attrType = Bool -> <<"f", "a", "l", "s", "e">>
      [] attrType = Number -> <<"1">>
      [] attrType = DynamicPseudoType -> <<>>
      [] IsMapType(attrType) ->
            <<"{", NL, " ", " ", DQ, "k", "e", "y", DQ, " ", "=", " ">>
            \o newTextForType(attrType.elem) \o <<NL, "}">>
      [] IsListType(attrType) \/ IsSetType(attrType) ->
            <<"[", NL>> \o newTextForType(attrType.elem) \o <<"]">>
      [] IsObjectType(attrType) ->
            <<"{", NL>> \o newTextForObjectAttrs(attrType, sortedObjectAttrNames(attrType)) \o <<"}">>
      [] IsTupleType(attrType) ->
            IF Len(attrType.elems) = 1
            THEN <<"[", " ">> \o newTextForType(attrType.elems[1]) \o <<" ", "]">>
            ELSE <<"[", NL>> \o newTextForTupleElems(attrType.elems) \o <<"]">>
      [] OTHER -> <<>>

newTextForType(attrType) ==
    CASE attrType = String -> <<DQ, DQ>>
      [] attrType = Bool -> <<"f", "a", "l", "s", "e">>
      [] attrType = Number -> <<"1">>
      [] attrType = DynamicPseudoType -> <<>>
      [] IsMapType(attrType) ->
            <<"{", NL, " ", " ", DQ, "k", "e", "y", DQ, " ", "=", " ">>
            \o newTextForType(attrType.elem) \o <<NL, "}">>
      [] IsListType(attrType) \/ IsSetType(attrType) ->
            <<"[", " ">> \o newTextForType(attrType.elem) \o <<" ", "]">>
      [] IsObjectType(attrType) ->
            <<"{", NL>> \o newTextForObjectAttrs(attrType, sortedObjectAttrNames(attrType)) \o <<"}">>
      [] IsTupleType(attrType) ->
            IF Len(attrType.elems) = 1
            THEN <<"[", " ">> \o newTextForType(attrType.elems[1]) \o <<" ", "]">>
            ELSE <<"[", NL>> \o newTextForTupleElems(attrType.elems) \o <<"]">>
      [] OTHER -> <<>>

RECURSIVE snippetForAttrType(_, _)
RECURSIVE snippetForObjectAttrs(_, _, _)
RECURSIVE snippetForTupleElems(_, _)

\* the loop over the sorted attribute names: placeholder++ after each
snippetForObjectAttrs(placeholder, t, names) ==
    IF names = <<>> THEN <<>>
    ELSE <<" ", " ", Head(names), " ", "=", " ">>
         \o snippetForAttrType(placeholder, t.attrs[Head(names)]) \o <<NL>>
         \o snippetForObjectAttrs(placeholder + 1, t, Tail(names))

\* the loop over the element types: placeholder++ before each
snippetForTupleElems(placeholder, elTypes) ==
    IF elTypes = <<>> THEN <<>>
    ELSE snippetForAttrType(placeholder + 1, Head(elTypes))
         \o snippetForTupleElems(placeholder + 1, Tail(elTypes))

snippetForAttrType(placeholder, attrType) ==
    CASE attrType = String ->
            <<DQ, "$", "{">> \o FormatUint(placeholder) \o <<":", "v", "a", "l", "u", "e", "}", DQ>>
      [] attrType = Bool ->
            <<"$", "{">> \o FormatUint(placeholder) \o <<":", "f", "a", "l", "s", "e", "}">>
      [] attrType = Number ->
            <<"$", "{">> \o FormatUint(placeholder) \o <<":", "1", "}">>
      [] attrType = DynamicPseudoType ->
            <<"$", "{">> \o FormatUint(placeholder) \o <<"}">>
      [] IsMapType(attrType) ->
            <<"{", NL, " ", " ", DQ, "$", "{", "1", ":", "k", "e", "y", "}", DQ, " ", "=", " ">>
            \o snippetForAttrType(placeholder + 1, attrType.elem) \o <<NL, "}">>
      [] IsListType(attrType) \/ IsSetType(attrType) ->
            <<"[", " ">> \o snippetForAttrType(placeholder, attrType.elem) \o <<" ", "]">>
      [] IsObjectType(attrType) ->
            <<"{", NL>>
            \o snippetForObjectAttrs(placeholder, attrType, sortedObjectAttrNames(attrType))
            \o <<"}">>
      [] IsTupleType(attrType) ->
            IF Len(attrType.elems) = 1
            THEN <<"[", " ">> \o snippetForAttrType(placeholder, attrType.elems[1]) \o <<" ", "]">>
            ELSE <<"[", NL>> \o snippetForTupleElems(placeholder, attrType.elems) \o <<"]">>
      [] OTHER -> <<>>

snippetForExprContraints(placeholder, ec) ==
    IF Len(ec) > 0 /\ ec[1].c = "LiteralTypeExpr"
    THEN snippetForAttrType(placeholder, ec[1].Type)
    ELSE <<>>

\* the characters of a type's friendly name
FriendlyText(t) ==
    CASE t.k = "string" -> <<"s", "t", "r", "i", "n", "g">>
      [] t.k = "number" -> <<"n", "u", "m", "b", "e", "r">>
      [] t.k = "bool" -> <<"b", "o", "o", "l">>
      [] t.k = "dynamic" -> <<"d", "y", "n", "a", "m", "i", "c">>
      [] OTHER -> <<FriendlyName(t)>>

RECURSIVE labelForType(_)
labelForType(attrType) ==
    CASE IsMapType(attrType) ->
            <<"{", " ", DQ, "k", "e", "y", DQ, " ", "=", " ">> \o labelForType(attrType.elem) \o <<" ", "}">>
      [] IsListType(attrType) \/ IsSetType(attrType) ->
            <<"[", " ">> \o labelForType(attrType.elem) \o <<" ", "]">>
      [] IsTupleType(attrType) ->
            LET elTypes == attrType.elems
            IN  IF Len(elTypes) > 2
                THEN <<"[", " ">> \o labelForType(elTypes[1]) \o <<" ", ",", " ">>
                     \o labelForType(elTypes[2]) \o <<",", " ", ".", ".", ".", " ", "]">>
                ELSE IF Len(elTypes) = 2
                THEN <<"[", " ">> \o labelForType(elTypes[1]) \o <<" ", ",", " ">>
                     \o labelForType(elTypes[2]) \o <<" ", "]">>
                ELSE IF Len(elTypes) = 1
                THEN <<"[", " ">> \o labelForType(elTypes[1]) \o <<" ", "]">>
                ELSE <<"[", " ", "]">>
      [] IsObjectType(attrType) ->
            LET attrNames == sortedObjectAttrNames(attrType)
                pair(i) == <<attrNames[i], " ", "=", " ">> \o labelForType(attrType.attrs[attrNames[i]])
            IN  IF Len(attrNames) > 2
                THEN <<"{", " ">> \o pair(1) \o <<",", " ">> \o pair(2) \o <<" ", Ellipsis, " ", "}">>
                ELSE IF Len(attrNames) = 2
                THEN <<"{", " ">> \o pair(1) \o <<",", " ">> \o pair(2) \o <<" ", "}">>
                ELSE IF Len(attrNames) = 1
                THEN <<"{", " ">> \o pair(1) \o <<" ", "}">>
                ELSE <<"{", " ", "}">>
      [] OTHER -> FriendlyText(attrType)

\* the loop of valuesToCandidates; the model's values are bools
RECURSIVE valuesToCandidates(_, _)
valuesToCandidates(vals, editRng) ==
    IF vals = <<>> THEN <<>>
    ELSE LET val == Head(vals)
         IN  (IF val.Type = Bool
              THEN <<Candidate(FormatBool(val.v), FriendlyName(val.Type), FriendlyName(val.Type),
                               FormatBool(val.v),
                               <<"$", "{", "1", ":">> \o FormatBool(val.v) \o <<"}">>,
                               editRng)>>
              ELSE <<>>)
             \o valuesToCandidates(Tail(vals), editRng)

\* typeToCandidates without its return for the other primitive types
typeToCandidates_AllTypes(ofType, editRng) ==
    IF ofType = Bool THEN valuesToCandidates(<<False, True>>, editRng)
    ELSE <<Candidate(labelForType(ofType), FriendlyName(ofType), "",
                     newTextForType(ofType), snippetForAttrType(1, ofType), editRng)>>

typeToCandidates(ofType, editRng) ==
    IF ofType = Bool THEN valuesToCandidates(<<False, True>>, editRng)
    ELSE IF IsPrimitiveType(ofType) THEN <<>>
    ELSE <<Candidate(labelForType(ofType), FriendlyName(ofType), "",
                     newTextForType(ofType), snippetForAttrType(1, ofType), editRng)>>

constraintToCandidates(constraint, editRng) ==
    IF constraint.c = "LiteralTypeExpr" THEN typeToCandidates(constraint.Type, editRng) ELSE <<>>

\* constraintsAtPos with the range of the expression as the edit range
constraintsAtPos_ExprRange(expr, constraints) ==
    IF expr.kind = "LiteralValueExpr" /\ ~expr.Val.known
    THEN [constraints |-> constraints, rng |-> expr.rng]
    ELSE [constraints |-> <<>>, rng |-> expr.rng]

\* constraintsAtPos without its test of IsWhollyKnown
constraintsAtPos_AnyLiteral(expr, constraints) ==
    IF expr.kind = "LiteralValueExpr"
    THEN [constraints |-> constraints, rng |-> Rng(expr.rng.s, expr.rng.s)]
    ELSE [constraints |-> <<>>, rng |-> expr.rng]

constraintsAtPos(expr, constraints) ==
    IF expr.kind = "LiteralValueExpr" /\ ~expr.Val.known
    THEN [constraints |-> constraints, rng |-> Rng(expr.rng.s, expr.rng.s)]
    ELSE [constraints |-> <<>>, rng |-> expr.rng]

RECURSIVE candidatesOfConstraints(_, _)
candidatesOfConstraints(constraints, editRng) ==
    IF constraints = <<>> THEN <<>>
    ELSE constraintToCandidates(Head(constraints), editRng)
         \o candidatesOfConstraints(Tail(constraints), editRng)

expressionCandidatesAtPos(constraints, editRng) ==
    [List |-> candidatesOfConstraints(constraints, editRng), IsComplete |-> TRUE]

attrValueCandidatesAtPos(attr, schema) ==
    LET at == constraintsAtPos(attr.Expr, schema.Expr)
    IN  IF Len(at.constraints) > 0
        THEN expressionCandidatesAtPos(at.constraints, at.rng)
        ELSE ZeroCandidates

\* an expression the parser leaves where a value is missing
MissingExpr(r) == LiteralValueExpr(Val(DynamicPseudoType, FALSE, ""), r)

CandExprs ==
    {MissingExpr(Rng(0, 0)), MissingExpr(Rng(4, 4)), MissingExpr(Rng(4, 5)), MissingExpr(Rng(7, 9)),
     LiteralValueExpr(True, Rng(4, 8)), ExprNumber, ExprString, ExprPair}

CandTypes ==
    {Bool, String, Number, DynamicPseudoType,
     List(Bool), Set(String), Map(Number), Map(List(Bool)),
     Tuple(<<>>), Tuple(<<Bool>>), Tuple(<<Number, Bool>>), Tuple(<<String, Number, Bool>>),
     Object(<<>>), Object("a" :> Bool), Object("a" :> Bool @@ "b" :> String),
     Object("a" :> Bool @@ "b" :> String @@ "c" :> Tuple(<<Number, Number>>)),
     List(Number), Set(List(Number)), List(Map(String)),
     Object("a" :> Map(Number) @@ "b" :> Number),
     Object("a" :> Object("a" :> Number @@ "b" :> Number) @@ "b" :> Number)}

\* the largest number of constraints of an attribute schema
MaxConstraints == 2

CandInputs ==
    {[expr |-> e, constraints |-> c] :
        e \in CandExprs, c \in SeqsUpTo({LiteralTypeExpr(t) : t \in CandTypes}, MaxConstraints)}

InitCand ==
    /\ doc = EmptyBodyFile
    /\ sch = NilBody
    /\ files = {}
    /\ rootSchema = NilBody
    /\ result = NoResult
    /\ cin \in CandInputs
    /\ cout = NewCandidates
    /\ tin = Idle /\ tout = Idle
    /\ rootSchemaMu = Idle /\ threads = Idle /\ ein = Idle /\ eout = Idle

\* candidates for the value of attribute a = <cin.expr> under cin.constraints
AttrValueCandidatesAtPos ==
    /\ cout = NewCandidates
    /\ cout' = attrValueCandidatesAtPos(Attribute("a", Rng(0, 1), cin.expr),
                                        AttributeSchema(cin.constraints, FALSE, ""))
    /\ UNCHANGED <<doc, sch, files, rootSchema, result, cin, tin, tout, rootSchemaMu, threads, ein, eout>>

NextCand == AttrValueCandidatesAtPos

SpecCand == InitCand /\ [][NextCand]_vars

\* C4: for an attribute whose only constraint is the bool literal type and
\* whose value is an empty (not wholly known) literal, the candidates are
\* exactly two, labelled true and false, each with its label as its
\* single-line new text and a zero-width edit range at the expression's start
C4_BoolCandidates ==
    (/\ cout.IsComplete
     /\ cin.constraints = LiteralTypeOnly(Bool)
     /\ cin.expr.kind = "LiteralValueExpr" /\ ~cin.expr.Val.known) =>
        /\ Len(cout.List) = 2
        /\ {cout.List[i].Label : i \in DOMAIN cout.List} = {FormatBool(TRUE), FormatBool(FALSE)}
        /\ \A i \in DOMAIN cout.List :
              /\ cout.List[i].NewText = cout.List[i].Label
              /\ \A k \in DOMAIN cout.List[i].NewText : cout.List[i].NewText[k] # NL
              /\ cout.List[i].Range = Rng(cin.expr.rng.s, cin.expr.rng.s)

\* candidates for a bool attribute whose missing value has a range of
\* non-zero width that does not start at byte 0
C4_Witness ==
    /\ cout.IsComplete
    /\ cin.constraints = LiteralTypeOnly(Bool)
    /\ cin.expr.kind = "LiteralValueExpr" /\ ~cin.expr.Val.known
    /\ cin.expr.rng.s > 0 /\ cin.expr.rng.e > cin.expr.rng.s
    /\ Len(cout.List) = 2

(***************************************************************************)
(* hclsyntax.ParseExpression on the characters the candidates insert       *)
(***************************************************************************)
Letters == {"a", "b", "c", "d", "e", "f", "g", "h", "i", "j", "k", "l", "m",
            "n", "o", "p", "q", "r", "s", "t", "u", "v", "w", "x", "y", "z"}
Digits == {DigitChars[i] : i \in DOMAIN DigitChars}
Punctuation == {"[", "]", "{", "}", "=", ":", ","}

\* a token: its type, its characters and its half-open byte range
Tok(t, v, s, e) == [t |-> t, v |-> v, s |-> s, e |-> e]

\* the index after the longest run of characters of a class from index i
RECURSIVE ScanWhile(_, _, _)
ScanWhile(text, i, class) ==
    IF i <= Len(text) /\ text[i] \in class THEN ScanWhile(text, i + 1, class) ELSE i

\* the index of the next double quote from index i, or past the end
RECURSIVE ScanQuote(_, _)
ScanQuote(text, i) ==
    IF i <= Len(text) /\ text[i] # DQ THEN ScanQuote(text, i + 1) ELSE i

\* the scanner: longest match, spaces dropped, newlines kept as tokens
RECURSIVE LexExpression(_, _)
LexExpression(text, i) ==
    IF i > Len(text) THEN <<Tok("EOF", <<>>, i - 1, i - 1)>>
    ELSE LET c == text[i]
         IN  CASE c = " " -> LexExpression(text, i + 1)
               [] c = NL -> <<Tok("Newline", <<c>>, i - 1, i)>> \o LexExpression(text, i + 1)
               [] c \in Punctuation -> <<Tok(c, <<c>>, i - 1, i)>> \o LexExpression(text, i + 1)
               [] c \in Digits ->
                     LET j == ScanWhile(text, i, Digits)
                     IN  <<Tok("Number", SubSeq(text, i, j - 1), i - 1, j - 1)>> \o LexExpression(text, j)
               [] c \in Letters ->
                     LET j == ScanWhile(text, i, Letters \cup Digits)
                     IN  <<Tok("Ident", SubSeq(text, i, j - 1), i - 1, j - 1)>> \o LexExpression(text, j)
               [] c = DQ ->
                     LET j == ScanQuote(text, i + 1)
                     IN  IF j > Len(text)
                         THEN <<Tok("Invalid", SubSeq(text, i, Len(text)), i - 1, Len(text))>>
                              \o LexExpression(text, j)
                         ELSE <<Tok("Quoted", SubSeq(text, i + 1, j - 1), i - 1, j)>>
                              \o LexExpression(text, j + 1)
               [] OTHER -> <<Tok("Invalid", <<c>>, i - 1, i)>> \o LexExpression(text, i + 1)

\* a name of one character is that character
AsName(text) == IF Len(text) = 1 THEN text[1] ELSE text

NoExpr == [kind |-> "none", rng |-> Rng(0, 0)]
ParseError == [ok |-> FALSE, expr |-> NoExpr, p |-> 0]
Parsed(expr, p) == [ok |-> TRUE, expr |-> expr, p |-> p]

\* the peeker: the next token, past the newlines when they are not included
RECURSIVE Peek(_, _, _)
Peek(toks, p, includeNewlines) ==
    IF ~includeNewlines /\ toks[p].t = "Newline" THEN Peek(toks, p + 1, includeNewlines) ELSE p

RECURSIVE parseExpression(_, _, _)
RECURSIVE parseExpressionTerm(_, _, _)
RECURSIVE parseExpressionTraversals(_, _, _)
RECURSIVE parseTupleCons(_, _, _, _)
RECURSIVE parseObjectCons(_, _, _, _)

\* the items of [ ... ] from token p: newlines are not included, items are
\* separated by commas
parseTupleCons(toks, p, exprs, start) ==
    LET q == Peek(toks, p, FALSE)
    IN  IF toks[q].t = "]" THEN Parsed(TupleConsExpr(exprs, Rng(start, toks[q].e)), q + 1)
        ELSE LET item == parseExpression(toks, q, FALSE)
             IN  IF ~item.ok THEN ParseError
                 ELSE LET n == Peek(toks, item.p, FALSE)
                      IN  IF toks[n].t = ","
                          THEN parseTupleCons(toks, n + 1, Append(exprs, item.expr), start)
                          ELSE IF toks[n].t = "]"
                          THEN Parsed(TupleConsExpr(Append(exprs, item.expr), Rng(start, toks[n].e)),
                                      n + 1)
                          ELSE ParseError

\* the items of { ... } from token p: newlines are included, an item is
\* key = value and ends at a newline, a comma or the closing brace
parseObjectCons(toks, p, items, start) ==
    IF toks[p].t = "Newline" THEN parseObjectCons(toks, p + 1, items, start)
    ELSE IF toks[p].t = "}" THEN Parsed(ObjectConsExpr(items, Rng(start, toks[p].e)), p + 1)
    ELSE LET key == parseExpression(toks, p, TRUE)
         IN  IF ~key.ok THEN ParseError
             ELSE IF toks[key.p].t \notin {"=", ":"} THEN ParseError
             ELSE LET value == parseExpression(toks, key.p + 1, TRUE)
                  IN  IF ~value.ok THEN ParseError
                      ELSE LET item == ObjectConsItem(key.expr, value.expr)
                           IN  IF toks[value.p].t \in {",", "Newline"}
                               THEN parseObjectCons(toks, value.p + 1, Append(items, item), start)
                               ELSE IF toks[value.p].t = "}"
                               THEN parseObjectCons(toks, value.p, Append(items, item), start)
                               ELSE ParseError

parseExpressionTerm(toks, p0, includeNewlines) ==
    LET p == Peek(toks, p0, includeNewlines)
        tok == toks[p]
        r == Rng(tok.s, tok.e)
    IN  CASE tok.t = "Number" -> Parsed(LiteralValueExpr(Val(Number, TRUE, AsName(tok.v)), r), p + 1)
          [] tok.t = "Ident" ->
                IF tok.v = FormatBool(TRUE) THEN Parsed(LiteralValueExpr(True, r), p + 1)
                ELSE IF tok.v = FormatBool(FALSE) THEN Parsed(LiteralValueExpr(False, r), p + 1)
                ELSE IF tok.v = <<"n", "u", "l", "l">>
                THEN Parsed(LiteralValueExpr(Val(DynamicPseudoType, TRUE, "null"), r), p + 1)
                ELSE Parsed(ScopeTraversalExpr(AsName(tok.v), r), p + 1)
          [] tok.t = "Quoted" ->
                Parsed(TemplateExpr(<<LiteralValueExpr(Val(String, TRUE, AsName(tok.v)),
                                                       Rng(tok.s + 1, tok.e - 1))>>, r),
                       p + 1)
          [] tok.t = "[" -> parseTupleCons(toks, p + 1, <<>>, tok.s)
          [] tok.t = "{" -> parseObjectCons(toks, p + 1, <<>>, tok.s)
          [] OTHER -> ParseError

\* the index brackets that follow a term
parseExpressionTraversals(toks, from, includeNewlines) ==
    LET p == Peek(toks, from.p, includeNewlines)
    IN  IF toks[p].t # "[" THEN from
        ELSE LET key == parseExpression(toks, p + 1, FALSE)
             IN  IF ~key.ok THEN ParseError
                 ELSE LET close == Peek(toks, key.p, FALSE)
                      IN  IF toks[close].t # "]" THEN ParseError
                          ELSE parseExpressionTraversals(
                                   toks,
                                   Parsed(RelativeTraversalExpr(from.expr,
                                                                Rng(from.expr.rng.s, toks[close].e)),
                                          close + 1),
                                   includeNewlines)

parseExpression(toks, p, includeNewlines) ==
    LET term == parseExpressionTerm(toks, p, includeNewlines)
    IN  IF term.ok THEN parseExpressionTraversals(toks, term, includeNewlines) ELSE ParseError

\* a bare expression is parsed with newlines not included, and nothing may
\* follow it
ParseExpression(text) ==
    LET toks == LexExpression(text, 1)
        e == parseExpression(toks, 1, FALSE)
    IN  IF e.ok /\ toks[Peek(toks, e.p, FALSE)].t = "EOF"
        THEN [ok |-> TRUE, expr |-> e.expr]
        ELSE [ok |-> FALSE, expr |-> NoExpr]

\* the largest number of element types of a tuple type
MaxTupleLen == 2

LeafTypes == {String, Number, Bool, DynamicPseudoType}

\* the compound types over a set of element types
CompoundsOver(S) ==
    {List(t) : t \in S} \cup {Set(t) : t \in S} \cup {Map(t) : t \in S}
    \cup {Tuple(ts) : ts \in SeqsUpTo(S, MaxTupleLen)}
    \cup {Object(f) : f \in UNION {[D -> S] : D \in SUBSET {"a", "b"}}}

\* the compound types one level up, each around one or two of the inner ones
WrapsOf(S) ==
    {List(t) : t \in S} \cup {Set(t) : t \in S} \cup {Map(t) : t \in S}
    \cup {Tuple(<<t>>) : t \in S} \cup {Tuple(<<t, Number>>) : t \in S}
    \cup {Object("a" :> t) : t \in S} \cup {Object("a" :> String @@ "b" :> t) : t \in S}

TextTypes == CompoundsOver(LeafTypes) \cup WrapsOf(CompoundsOver(LeafTypes))

NoText == [stage |-> "none", text |-> <<>>, parse |-> [ok |-> FALSE, expr |-> NoExpr],
           hover |-> ExprError("")]

InitText ==
    /\ doc = EmptyBodyFile
    /\ sch = NilBody
    /\ files = {}
    /\ rootSchema = NilBody
    /\ result = NoResult
    /\ cin = Idle /\ cout = Idle
    /\ tin \in TextTypes
    /\ tout = NoText
    /\ rootSchemaMu = Idle /\ threads = Idle /\ ein = Idle /\ eout = Idle

\* the insertion text of the candidate for type tin
NewTextForType ==
    /\ tout.stage = "none"
    /\ tout' = [tout EXCEPT !.stage = "text", !.text = newTextForType(tin)]
    /\ UNCHANGED <<doc, sch, files, rootSchema, result, cin, cout, tin, rootSchemaMu, threads, ein, eout>>

\* the inserted text is parsed again
ReparseText ==
    /\ tout.stage = "text"
    /\ tout' = [tout EXCEPT !.stage = "parsed", !.parse = ParseExpression(tout.text)]
    /\ UNCHANGED <<doc, sch, files, rootSchema, result, cin, cout, tin, rootSchemaMu, threads, ein, eout>>

\* the parsed expression is matched against the constraint LiteralTypeExpr{tin}
MatchConstraint ==
    /\ tout.stage = "parsed" /\ tout.parse.ok
    /\ tout' = [tout EXCEPT !.stage = "matched",
                            !.hover = hoverContentForExpr(tout.parse.expr, LiteralTypeOnly(tin))]
    /\ UNCHANGED <<doc, sch, files, rootSchema, result, cin, cout, tin, rootSchemaMu, threads, ein, eout>>

NextText == NewTextForType \/ ReparseText \/ MatchConstraint

SpecText == InitText /\ [][NextText]_vars

\* the expression the constraint engine looks at: a template of one part is
\* that part, a wrapped template is what it wraps
Unwrapped(e) ==
    IF e.kind = "TemplateExpr" /\ Len(e.Parts) = 1 THEN e.Parts[1]
    ELSE IF e.kind = "TemplateWrapExpr" THEN e.Wrapped
    ELSE e

\* expression e has the shape of type t, element by element
RECURSIVE ExprMatchesType(_, _)
ExprMatchesType(e0, t) ==
    LET e == Unwrapped(e0)
    IN  CASE IsPrimitiveType(t) -> e.kind = "LiteralValueExpr" /\ e.Val.Type = t
          [] t = DynamicPseudoType -> TRUE
          [] IsListType(t) \/ IsSetType(t) ->
                /\ e.kind = "TupleConsExpr"
                /\ \A i \in DOMAIN e.Exprs : ExprMatchesType(e.Exprs[i], t.elem)
          [] IsTupleType(t) ->
                /\ e.kind = "TupleConsExpr"
                /\ Len(e.Exprs) = Len(t.elems)
                /\ \A i \in DOMAIN e.Exprs : ExprMatchesType(e.Exprs[i], t.elems[i])
          [] IsMapType(t) ->
                /\ e.kind = "ObjectConsExpr"
                /\ \A i \in DOMAIN e.Items : ExprMatchesType(e.Items[i].ValueExpr, t.elem)
          [] IsObjectType(t) ->
                /\ e.kind = "ObjectConsExpr"
                /\ Len(e.Items) = Cardinality(DOMAIN t.attrs)
                /\ \A i \in DOMAIN e.Items :
                      /\ e.Items[i].KeyExpr.kind = "ScopeTraversalExpr"
                      /\ e.Items[i].KeyExpr.name \in DOMAIN t.attrs
                      /\ ExprMatchesType(e.Items[i].ValueExpr, t.attrs[e.Items[i].KeyExpr.name])
          [] OTHER -> FALSE

\* C5 as stated: the insertion text of every compound type parses, and the
\* parsed expression is matched against LiteralTypeExpr{T} with each element
\* matching its element type
C5_RoundTrip ==
    /\ tout.stage = "parsed" => tout.parse.ok
    /\ tout.stage = "matched" => (tout.hover.err = "" /\ ExprMatchesType(tout.parse.expr, tin))


(***************************************************************************)
(* Concurrent calls.  One goroutine runs a query and another SetSchema;    *)
(* each step is one access of Decoder.rootSchemaMu or of the               *)
(* Decoder.rootSchema slot.  A read of the slot while the store of         *)
(* SetSchema is in progress is a data race and yields the old or the new   *)
(* value.                                                                  *)
(***************************************************************************)
NoLock == [readers |-> 0, writer |-> FALSE]

NoRead == [done |-> FALSE, schema |-> NilBody, locked |-> FALSE, raced |-> FALSE]

NoReturn == [err |-> "", data |-> NilHover, tokens |-> <<>>]

IdleQuery ==
    [pc |-> "idle", op |-> "none", pos |-> 0, holds |-> FALSE,
     check |-> NoRead, walk |-> NoRead, ret |-> NoReturn]

IdleSetter == [pc |-> "idle", schema |-> NilBody]

\* the documents and the schemas of the concurrent calls
ConcDocs ==
    {ParseConfig(<<SrcAttr("a", ExprNumber), SrcAttr("c", ExprString)>>),
     ParseConfig(<<SrcBlock("resource", <<"x", "n">>, <<SrcAttr("a", ExprNumber)>>)>>)}

ConcSchemas ==
    {NilBody, RootSchema(NilAttr, OwnBody(TRUE), NoMap), RootSchema(AttrString, NilBody, DependentAttr)}

InitConc ==
    /\ doc \in ConcDocs
    /\ sch = NilBody
    /\ files = {}
    /\ rootSchema = NilBody
    /\ result = NoResult
    /\ cin = Idle /\ cout = Idle /\ tin = Idle /\ tout = Idle
    /\ rootSchemaMu = NoLock
    /\ threads = [query |-> IdleQuery, setter |-> IdleSetter]
    /\ ein = Idle /\ eout = Idle

\* the values a load of the d.rootSchema slot can give
LoadRootSchema ==
    IF threads.setter.pc = "storing" THEN {rootSchema, threads.setter.schema} ELSE {rootSchema}

\* the record of a load of d.rootSchema by the query
ReadOf(schema) ==
    [done |-> TRUE, schema |-> schema, locked |-> threads.query.holds,
     raced |-> threads.setter.pc = "storing"]

\* SetSchema: d.rootSchemaMu.Lock()
SetSchemaLock ==
    /\ threads.setter.pc = "idle"
    /\ rootSchemaMu = NoLock
    /\ \E s \in ConcSchemas :
          threads' = [threads EXCEPT !.setter = [pc |-> "locked", schema |-> s]]
    /\ rootSchemaMu' = [rootSchemaMu EXCEPT !.writer = TRUE]
    /\ UNCHANGED <<doc, sch, files, rootSchema, result, cin, cout, tin, tout, ein, eout>>

\* SetSchema: the store d.rootSchema = schema begins
SetSchemaStore ==
    /\ threads.setter.pc = "locked"
    /\ threads' = [threads EXCEPT !.setter.pc = "storing"]
    /\ UNCHANGED <<doc, sch, files, rootSchema, result, cin, cout, tin, tout, rootSchemaMu, ein, eout>>

\* SetSchema: the store is complete
SetSchemaStored ==
    /\ threads.setter.pc = "storing"
    /\ rootSchema' = threads.setter.schema
    /\ threads' = [threads EXCEPT !.setter.pc = "stored"]
    /\ UNCHANGED <<doc, sch, files, result, cin, cout, tin, tout, rootSchemaMu, ein, eout>>

\* SetSchema: the deferred d.rootSchemaMu.Unlock()
SetSchemaUnlock ==
    /\ threads.setter.pc = "stored"
    /\ rootSchemaMu' = [rootSchemaMu EXCEPT !.writer = FALSE]
    /\ threads' = [threads EXCEPT !.setter = IdleSetter]
    /\ UNCHANGED <<doc, sch, files, rootSchema, result, cin, cout, tin, tout, ein, eout>>

\* a query begins: fileByName and bodyForFileAndPos
QueryBegin(op, pos, next) ==
    /\ threads.query.pc = "idle"
    /\ threads' = [threads EXCEPT !.query =
                      IF fileError(FileName) # ""
                      THEN [IdleQuery EXCEPT !.pc = "done", !.op = op, !.pos = pos,
                                             !.ret.err = fileError(FileName)]
                      ELSE [IdleQuery EXCEPT !.pc = next, !.op = op, !.pos = pos]]
    /\ UNCHANGED <<doc, sch, files, rootSchema, result, cin, cout, tin, tout, rootSchemaMu, ein, eout>>

HoverBegin == \E pos \in 0..doc.Body.rng.e : QueryBegin("hover", pos, "rlock")

TokensBegin == QueryBegin("tokens", 0, "check")

\* HoverAtPos: d.rootSchemaMu.RLock()
HoverRLock ==
    /\ threads.query.pc = "rlock"
    /\ ~rootSchemaMu.writer
    /\ rootSchemaMu' = [rootSchemaMu EXCEPT !.readers = @ + 1]
    /\ threads' = [threads EXCEPT !.query.pc = "check", !.query.holds = TRUE]
    /\ UNCHANGED <<doc, sch, files, rootSchema, result, cin, cout, tin, tout, ein, eout>>

\* if d.rootSchema == nil: the first load of the slot
HoverNilCheck ==
    /\ threads.query.pc = "check" /\ threads.query.op = "hover"
    /\ \E v \in LoadRootSchema :
          threads' = [threads EXCEPT
                         !.query.check = ReadOf(v),
                         !.query.pc = IF v.isNil THEN "runlock" ELSE "walk",
                         !.query.ret.err = IF v.isNil THEN "NoSchemaError" ELSE ""]
    /\ UNCHANGED <<doc, sch, files, rootSchema, result, cin, cout, tin, tout, rootSchemaMu, ein, eout>>

\* d.hoverAtPos(rootBody, d.rootSchema, pos): the second load and the walk
HoverWalk ==
    /\ threads.query.pc = "walk" /\ threads.query.op = "hover"
    /\ \E v \in LoadRootSchema :
          LET r == hoverAtPos(doc.Body, v, threads.query.pos)
          IN  threads' = [threads EXCEPT
                             !.query.walk = ReadOf(v),
                             !.query.pc = "runlock",
                             !.query.ret = [err |-> r.err, data |-> r.data, tokens |-> <<>>]]
    /\ UNCHANGED <<doc, sch, files, rootSchema, result, cin, cout, tin, tout, rootSchemaMu, ein, eout>>

\* HoverAtPos: the deferred d.rootSchemaMu.RUnlock()
HoverRUnlock ==
    /\ threads.query.pc = "runlock"
    /\ rootSchemaMu' = [rootSchemaMu EXCEPT !.readers = @ - 1]
    /\ threads' = [threads EXCEPT !.query.pc = "done", !.query.holds = FALSE]
    /\ UNCHANGED <<doc, sch, files, rootSchema, result, cin, cout, tin, tout, ein, eout>>

\* SemanticTokensInFile: if d.rootSchema == nil, the first load of the slot
TokensNilCheck ==
    /\ threads.query.pc = "check" /\ threads.query.op = "tokens"
    /\ \E v \in LoadRootSchema :
          threads' = [threads EXCEPT
                         !.query.check = ReadOf(v),
                         !.query.pc = IF v.isNil THEN "done" ELSE "walk"]
    /\ UNCHANGED <<doc, sch, files, rootSchema, result, cin, cout, tin, tout, rootSchemaMu, ein, eout>>

\* tokensForBody(body, d.rootSchema, false): the second load, the walk and
\* the sort
TokensWalk ==
    /\ threads.query.pc = "walk" /\ threads.query.op = "tokens"
    /\ \E v \in LoadRootSchema : \E ord \in AttrOrders :
          LET w == tokensForBody(doc.Body, v, FALSE, ord)
          IN  \E sorted \in sortTokens(w.toks) :
                  threads' = [threads EXCEPT
                                 !.query.walk = ReadOf(v),
                                 !.query.pc = "done",
                                 !.query.ret = [err |-> IF w.panic THEN "panic" ELSE "",
                                                data |-> NilHover, tokens |-> sorted]]
    /\ UNCHANGED <<doc, sch, files, rootSchema, result, cin, cout, tin, tout, rootSchemaMu, ein, eout>>

\* the caller takes what the query returned
QueryReturn ==
    /\ threads.query.pc = "done"
    /\ threads' = [threads EXCEPT !.query = IdleQuery]
    /\ UNCHANGED <<doc, sch, files, rootSchema, result, cin, cout, tin, tout, rootSchemaMu, ein, eout>>

NextConc ==
    \/ LoadFile
    \/ SetSchemaLock
    \/ SetSchemaStore
    \/ SetSchemaStored
    \/ SetSchemaUnlock
    \/ HoverBegin
    \/ TokensBegin
    \/ HoverRLock
    \/ HoverNilCheck
    \/ HoverWalk
    \/ HoverRUnlock
    \/ TokensNilCheck
    \/ TokensWalk
    \/ QueryReturn

SpecConc == InitConc /\ [][NextConc]_vars

\* C11 as stated: each load of the root schema by a query is made while the
\* query holds the read lock and while no store of SetSchema is in
\* progress, and the nil check and the walk of one query load the same value
C11_ReadsUnderLock ==
    LET q == threads.query
    IN  /\ \A r \in {q.check, q.walk} : r.done => (r.locked /\ ~r.raced)
        /\ (q.check.done /\ q.walk.done) => q.check.schema = q.walk.schema

\* the part of C11 that HoverAtPos meets
C11_HoverReadsUnderLock ==
    LET q == threads.query
    IN  q.op = "hover" =>
            /\ \A r \in {q.check, q.walk} : r.done => (r.locked /\ ~r.raced)
            /\ (q.check.done /\ q.walk.done) => q.check.schema = q.walk.schema

\* SemanticTokensInFile returns the tokens of a schema other than the one its
\* nil check saw
C11_TokensOfAnotherSchema ==
    LET q == threads.query
    IN  ~(/\ q.op = "tokens" /\ q.pc = "done" /\ q.walk.done
          /\ q.check.schema # q.walk.schema
          /\ ~q.walk.raced /\ ~q.check.raced)

(***************************************************************************)
(* Properties of the value candidates                                      *)
(***************************************************************************)
\* the attribute's value is missing: a literal that is not wholly known
EmptyValue == cin.expr.kind = "LiteralValueExpr" /\ ~cin.expr.Val.known

\* the query has answered
Answered == cout # NewCandidates

IsCompoundType(t) == t.k \in {"list", "set", "tuple", "map", "object"}

\* the number of candidates C12 gives a constraint of type t
Contribution(t) == IF t = Bool THEN 2 ELSE IF IsPrimitiveType(t) THEN 0 ELSE 1

\* the number of candidates C12 gives the constraints before the i-th
RECURSIVE ContributionsBefore(_, _)
ContributionsBefore(cs, i) ==
    IF i <= 1 THEN 0 ELSE Contribution(cs[i - 1].Type) + ContributionsBefore(cs, i - 1)

\* C12: over an empty value and constraints of primitive and compound
\* types, the candidate list is the concatenation in constraint order of
\* each constraint's candidates: false and true for bool, none for string and
\* number, one structural candidate for a compound type; the list is complete
C12_CandidatesPerConstraint ==
    (/\ Answered /\ EmptyValue
     /\ \A i \in DOMAIN cin.constraints :
           IsPrimitiveType(cin.constraints[i].Type) \/ IsCompoundType(cin.constraints[i].Type)) =>
        LET cs == cin.constraints
            at(i) == SubSeq(cout.List, ContributionsBefore(cs, i) + 1, ContributionsBefore(cs, i + 1))
        IN  /\ cout.IsComplete
            /\ Len(cout.List) = ContributionsBefore(cs, Len(cs) + 1)
            /\ \A i \in DOMAIN cs :
                  /\ cs[i].Type = Bool =>
                        /\ at(i)[1].Label = FormatBool(FALSE)
                        /\ at(i)[2].Label = FormatBool(TRUE)
                  /\ IsCompoundType(cs[i].Type) =>
                        /\ at(i)[1].Label = labelForType(cs[i].Type)
                        /\ at(i)[1].NewText = newTextForType(cs[i].Type)

\* candidates over an empty value for a string constraint before a bool
\* one, and for a compound constraint before a bool one
C12_Witness ==
    /\ Answered /\ EmptyValue
    /\ Len(cin.constraints) = 2
    /\ cin.constraints[2].Type = Bool
    /\ \/ cin.constraints[1].Type = String /\ Len(cout.List) = 2
       \/ IsTupleType(cin.constraints[1].Type) /\ Len(cout.List) = 3

\* the insertion text C13 gives an element type
ElementText(t) ==
    CASE t = Number -> <<"1">>
      [] t = Bool -> <<"f", "a", "l", "s", "e">>
      [] t = String -> <<DQ, DQ>>
      [] OTHER -> newTextForType(t)

\* C13: over an empty value and the single constraint of a list or set type
\* with element type E there is one candidate, and its insertion text is
\* "[ ", the insertion text for E, " ]": "[ 1 ]" for a list of number
C13_ListInsertionText ==
    (/\ Answered /\ EmptyValue
     /\ Len(cin.constraints) = 1
     /\ (IsListType(cin.constraints[1].Type) \/ IsSetType(cin.constraints[1].Type))) =>
        /\ Len(cout.List) = 1
        /\ cout.List[1].NewText = <<"[", " ">> \o ElementText(cin.constraints[1].Type.elem) \o <<" ", "]">>
        /\ cin.constraints[1].Type = List(Number) => cout.List[1].NewText = <<"[", " ", "1", " ", "]">>

\* the candidate for a list of number over an empty value
C13_Witness ==
    /\ Answered /\ EmptyValue
    /\ cin.constraints = LiteralTypeOnly(List(Number))
    /\ Len(cout.List) = 1

\* C14: candidates are offered only over an empty value, with an edit range
\* of zero width at the start of the expression; for a wholly known literal
\* and for every other kind of expression the answer is the empty list,
\* whatever the constraints
C14_OnlyForEmptyValue ==
    Answered =>
        /\ ~EmptyValue => cout = ZeroCandidates
        /\ EmptyValue =>
              \A i \in DOMAIN cout.List : cout.List[i].Range = Rng(cin.expr.rng.s, cin.expr.rng.s)

\* the answer for a wholly known bool literal under a bool constraint, which
\* alone would give two candidates
C14_Witness ==
    /\ Answered
    /\ cin.expr.kind = "LiteralValueExpr" /\ cin.expr.Val.known
    /\ cin.constraints = LiteralTypeOnly(Bool)
    /\ cout.List = <<>>

\* the number a run of decimal digits of text from position i denotes
RECURSIVE ReadUint(_, _, _)
ReadUint(text, i, acc) ==
    IF i <= Len(text) /\ text[i] \in Digits
    THEN ReadUint(text, i + 1, acc * 10 + (CHOOSE d \in 0..9 : DigitChars[d + 1] = text[i]))
    ELSE acc

\* the indices of the placeholders ${n...} of a snippet, in order of
\* appearance
RECURSIVE PlaceholderIndices(_, _)
PlaceholderIndices(text, i) ==
    IF i >= Len(text) THEN <<>>
    ELSE IF text[i] = "$" /\ text[i + 1] = "{"
         THEN <<ReadUint(text, i + 2, 0)>> \o PlaceholderIndices(text, i + 2)
         ELSE PlaceholderIndices(text, i + 1)

\* C19 as stated: the placeholders of the snippet of the candidate for a
\* compound type are numbered 1..k in order of appearance, none twice
C19_SequentialPlaceholders ==
    (/\ Answered /\ EmptyValue
     /\ Len(cin.constraints) = 1
     /\ IsCompoundType(cin.constraints[1].Type)) =>
        LET idx == PlaceholderIndices(cout.List[1].Snippet, 1)
        IN  \A j \in DOMAIN idx : idx[j] = j

\* the snippet of an object with a map-typed attribute before another
\* attribute uses a placeholder index twice
C19_NoIndexTwice ==
    (/\ Answered /\ EmptyValue
     /\ cin.constraints = LiteralTypeOnly(Object("a" :> Map(Number) @@ "b" :> Number))) =>
        LET idx == PlaceholderIndices(cout.List[1].Snippet, 1)
        IN  \A j, k \in DOMAIN idx : idx[j] = idx[k] => j = k

(***************************************************************************)
(* The expression of one attribute against its constraints: the file       *)
(* a = <expr> under a schema declaring a with the constraints, hovered at  *)
(* a position of the value and tokenized.                                  *)
(***************************************************************************)
ExprBool == LiteralValueExpr(True, Rng(0, 4))
ExprRef == ScopeTraversalExpr("x", Rng(0, 1))

\* [ e ]
TupleOne(e) == TupleConsExpr(<<Shift(e, 1)>>, Rng(0, e.rng.e + 2))

\* { a = e }
ObjectOne(e) ==
    ObjectConsExpr(<<ObjectConsItem(ScopeTraversalExpr("a", Rng(1, 2)), Shift(e, 5))>>,
                   Rng(0, e.rng.e + 6))

Exprs ==
    {ExprNumber, ExprString, ExprBool, ExprRef,
     TupleConsExpr(<<>>, Rng(0, 2)), ExprPair, TupleOne(ExprString), TupleOne(ExprBool),
     TupleOne(TupleOne(ExprNumber)),
     ObjectOne(ExprNumber), ObjectOne(ExprString), ObjectOne(ExprBool)}

ExprTypes ==
    {String, Number, Bool,
     List(Number), List(String), Set(Number), Set(List(Number)),
     Tuple(<<Number, Number>>), Tuple(<<String>>), Tuple(<<>>),
     Object("a" :> Number), Object("a" :> String), Map(String), Map(Number)}

ExprInputs ==
    {[expr |-> e, constraints |-> c] :
        e \in Exprs, c \in SeqsUpTo({LiteralTypeExpr(t) : t \in ExprTypes}, MaxConstraints)}

\* the parsed file a = <ein.expr> and the schema declaring a
ExprBody == ParseConfig(<<SrcAttr("a", ein.expr)>>).Body
ExprSchema == BodySchema("a" :> AttributeSchema(ein.constraints, FALSE, ""), NilAttr, NoMap, "", "")

NoExprResult ==
    [hover |-> [done |-> FALSE, pos |-> 0, ret |-> Ret(NilHover)],
     tokens |-> [done |-> FALSE, ret |-> Toks(<<>>)]]

InitExpr ==
    /\ doc = EmptyBodyFile
    /\ sch = NilBody
    /\ files = {}
    /\ rootSchema = NilBody
    /\ result = NoResult
    /\ cin = Idle /\ cout = Idle /\ tin = Idle /\ tout = Idle
    /\ rootSchemaMu = Idle /\ threads = Idle
    /\ ein \in ExprInputs
    /\ eout = NoExprResult

\* hoverAtPos at a position of the value
HoverAtValue ==
    /\ ~eout.hover.done
    /\ \E pos \in ExprBody.Attributes["a"].Expr.rng.s .. ExprBody.Attributes["a"].Expr.rng.e - 1 :
          eout' = [eout EXCEPT !.hover = [done |-> TRUE, pos |-> pos,
                                          ret |-> hoverAtPos(ExprBody, ExprSchema, pos)]]
    /\ UNCHANGED <<doc, sch, files, rootSchema, result, cin, cout, tin, tout, rootSchemaMu, threads, ein>>

\* tokensForBody over the file
TokensOfValue ==
    /\ ~eout.tokens.done
    /\ \E ord \in AttrOrders :
          eout' = [eout EXCEPT !.tokens = [done |-> TRUE,
                                           ret |-> tokensForBody(ExprBody, ExprSchema, FALSE, ord)]]
    /\ UNCHANGED <<doc, sch, files, rootSchema, result, cin, cout, tin, tout, rootSchemaMu, threads, ein>>

NextExpr == HoverAtValue \/ TokensOfValue

SpecExpr == InitExpr /\ [][NextExpr]_vars

(***************************************************************************)
(* Properties of the expression matching                                   *)
(***************************************************************************)
\* the value expression as parsed in the file, and the token of its name
ValueExpr == ExprBody.Attributes["a"].Expr
NameToken == SemanticToken(TokenAttrName, <<>>, ExprBody.Attributes["a"].NameRange)

\* the first constraint whose type is of the kind
FirstOfKind(cs, kind) ==
    LET of == {i \in DOMAIN cs : cs[i].Type.k = kind}
    IN  IF of = {} THEN NoConstraint
        ELSE [found |-> TRUE, Type |-> cs[CHOOSE i \in of : \A j \in of : i <= j].Type]

\* the first of a sequence of searches that found a constraint
RECURSIVE FirstFound(_)
FirstFound(searches) ==
    IF searches = <<>> THEN NoConstraint
    ELSE IF Head(searches).found THEN Head(searches) ELSE FirstFound(Tail(searches))

\* the constraint C15 gives a compound construction
Chosen(expr, cs) ==
    IF expr.kind = "TupleConsExpr"
    THEN FirstFound(<<FirstOfKind(cs, "list"), FirstOfKind(cs, "set"), FirstOfKind(cs, "tuple")>>)
    ELSE FirstFound(<<FirstOfKind(cs, "object"), FirstOfKind(cs, "map")>>)

IsCompoundExpr(expr) == expr.kind \in {"TupleConsExpr", "ObjectConsExpr"}

\* C15: a sequence construction is matched to the first list-typed
\* constraint, else the first set-typed, else the first tuple-typed, a keyed
\* construction to the first object-typed, else the first map-typed,
\* whatever the order of the constraints; hover describes the type of that
\* constraint and the tokens are those of the construction against it; with
\* no such constraint hover fails with the unsupported-expression error and
\* the value gets no token
C15_PriorityOverKinds ==
    IsCompoundExpr(ein.expr) =>
        LET chosen == Chosen(ValueExpr, ein.constraints)
        IN  /\ eout.hover.done =>
                  IF chosen.found
                  THEN /\ eout.hover.ret.err = ""
                       /\ eout.hover.ret.data =
                              HoverData(hoverContentForValueAndType(NullVal(chosen.Type), chosen.Type).md,
                                        ValueExpr.rng)
                  ELSE /\ eout.hover.ret.err = "PositionalError"
                       /\ eout.hover.ret.msg = <<"unsupported expression">>
            /\ eout.tokens.done =>
                  IF chosen.found
                  THEN eout.tokens.ret = Join(Toks(<<NameToken>>), tokenForTypedExpression(ValueExpr, chosen.Type))
                  ELSE eout.tokens.ret = Toks(<<NameToken>>)

\* hover and tokens of [1,1] under a set constraint before a list constraint
\* where the tokens show the list one was taken
C15_Witness ==
    /\ eout.hover.done /\ eout.tokens.done
    /\ ein.expr = ExprPair
    /\ ein.constraints = <<LiteralTypeExpr(Set(List(Number))), LiteralTypeExpr(List(Number))>>
    /\ Len(eout.tokens.ret.toks) = 3

\* a literal scalar: a literal value, or a quoted string of one literal part
IsScalarExpr(expr) ==
    \/ expr.kind = "LiteralValueExpr"
    \/ expr.kind = "TemplateExpr" /\ Len(expr.Parts) = 1 /\ expr.Parts[1].kind = "LiteralValueExpr"

ScalarOf(expr) == IF expr.kind = "TemplateExpr" THEN expr.Parts[1] ELSE expr

\* the token type of a primitive type
TokenOfType(t) ==
    CASE t = Bool -> TokenBool
      [] t = String -> TokenString
      [] t = Number -> TokenNumber

\* C16: a literal scalar matches exactly when a constraint's type equals the
\* type of its value: then hover gives the value with that type and the
\* value gets the token of that type; otherwise hover fails with a
\* PositionalError saying there is no schema for the literal type, and the
\* tokens are the attribute-name token alone
C16_LiteralExactType ==
    IsScalarExpr(ein.expr) =>
        LET lit == ScalarOf(ValueExpr)
            matched == \E i \in DOMAIN ein.constraints : ein.constraints[i].Type = lit.Val.Type
        IN  /\ eout.hover.done =>
                  IF matched
                  THEN /\ eout.hover.ret.err = ""
                       /\ eout.hover.ret.data.Content =
                              <<Tick, lit.Val.v, Tick, " _", FriendlyName(lit.Val.Type), "_">>
                  ELSE /\ eout.hover.ret.err = "PositionalError"
                       /\ eout.hover.ret.msg = <<"no schema for literal type">>
                       /\ eout.hover.ret.data.isNil
            /\ eout.tokens.done =>
                  IF matched
                  THEN /\ Len(eout.tokens.ret.toks) = 2
                       /\ eout.tokens.ret.toks[1] = NameToken
                       /\ eout.tokens.ret.toks[2].Type = TokenOfType(lit.Val.Type)
                       /\ eout.tokens.ret.toks[2].Range = lit.rng
                  ELSE eout.tokens.ret = Toks(<<NameToken>>)

\* hover and tokens of the literal true under a number and a string
\* constraint
C16_Witness ==
    /\ eout.hover.done /\ eout.tokens.done
    /\ ein.expr = ExprBool
    /\ ein.constraints = <<LiteralTypeExpr(Number), LiteralTypeExpr(String)>>
    /\ eout.hover.ret.err = "PositionalError"
    /\ eout.tokens.ret.toks = <<NameToken>>

\* the tokens an expression gets as an attribute's value under the single
\* constraint LiteralTypeExpr{t}
AsTopLevel(expr, t) == tokensForConstrainedExpression(expr, LiteralTypeOnly(t)).toks

\* the tokens C20 gives the elements of a sequence construction
RECURSIVE ElementsAsTopLevel(_, _, _)
ElementsAsTopLevel(exprs, i, t) ==
    IF i > Len(exprs) THEN <<>>
    ELSE AsTopLevel(exprs[i], IF IsTupleType(t) THEN t.elems[i] ELSE t.elem)
         \o ElementsAsTopLevel(exprs, i + 1, t)

\* the tokens C20 gives the items of a keyed construction
RECURSIVE ItemsAsTopLevel(_, _, _)
ItemsAsTopLevel(items, i, t) ==
    IF i > Len(items) THEN <<>>
    ELSE LET key == KeyValue(items[i].KeyExpr)
         IN  (IF IsMapType(t)
              THEN <<SemanticToken(TokenMapKey, <<>>, items[i].KeyExpr.rng)>>
                   \o AsTopLevel(items[i].ValueExpr, t.elem)
              ELSE IF key.known /\ key.Type = String /\ key.v \in DOMAIN t.attrs
              THEN <<SemanticToken(TokenObjectKey, <<>>, items[i].KeyExpr.rng)>>
                   \o AsTopLevel(items[i].ValueExpr, t.attrs[key.v])
              ELSE <<>>)
             \o ItemsAsTopLevel(items, i + 1, t)

\* C20 as stated: the tokens of each element of a matched compound literal
\* are those the element gets as an attribute's value under the single
\* constraint of its declared element type
C20_ElementsAsTopLevel ==
    (/\ eout.tokens.done /\ ~eout.tokens.ret.panic
     /\ IsCompoundExpr(ein.expr)
     /\ Chosen(ValueExpr, ein.constraints).found) =>
        LET t == Chosen(ValueExpr, ein.constraints).Type
        IN  eout.tokens.ret.toks =
                <<NameToken>> \o (IF ValueExpr.kind = "TupleConsExpr"
                                  THEN ElementsAsTopLevel(ValueExpr.Exprs, 1, t)
                                  ELSE ItemsAsTopLevel(ValueExpr.Items, 1, t))

\* the literal true under a number-typed object attribute gets no token of
\* the declared type
C20_NoTokenOfDeclaredType ==
    (/\ eout.tokens.done
     /\ ein.expr = ObjectOne(ExprBool)
     /\ ein.constraints = LiteralTypeOnly(Object("a" :> Number))) =>
        \A i \in DOMAIN eout.tokens.ret.toks : eout.tokens.ret.toks[i].Type # TokenNumber

\* a quoted string in a list of string gets a string token
C20_StringElementToken ==
    (/\ eout.tokens.done
     /\ ein.expr = TupleOne(ExprString)
     /\ ein.constraints = LiteralTypeOnly(List(String))) =>
        \E i \in DOMAIN eout.tokens.ret.toks : eout.tokens.ret.toks[i].Type = TokenString

(***************************************************************************)
(* Properties of the decoder: unknown constructs and labels                *)
(***************************************************************************)
\* the outermost unknown construct holding pos on the way hover takes from
\* the root: an attribute the governing schema neither declares nor covers
\* with AnyAttribute, or a block whose type it does not declare
NothingUnknown == [what |-> "none", name |-> ""]
RECURSIVE UnknownAt(_, _, _)
UnknownAt(body, schema, pos) ==
    IF schema.isNil THEN NothingUnknown
    ELSE LET attrs == {n \in DOMAIN body.Attributes : ContainsPos(body.Attributes[n].rng, pos)}
             blocks == {i \in DOMAIN body.Blocks : ContainsPos(body.Blocks[i].rng, pos)}
         IN  IF attrs # {}
             THEN LET n == CHOOSE m \in attrs : TRUE
                  IN  IF Recognizes(schema, n) THEN NothingUnknown
                      ELSE [what |-> "attribute", name |-> n]
             ELSE IF blocks # {}
             THEN LET b == body.Blocks[CHOOSE i \in blocks : TRUE]
                  IN  IF b.Type \notin DOMAIN schema.Blocks
                      THEN [what |-> "block", name |-> b.Type]
                      ELSE IF ContainsPos(b.Body.rng, pos)
                      THEN UnknownAt(b.Body, mergeBlockBodySchemas(b, schema.Blocks[b.Type]), pos)
                      ELSE NothingUnknown
             ELSE NothingUnknown

\* the document has an unknown construct somewhere
HasUnknown ==
    \E pos \in 0..doc.Body.rng.e : UnknownAt(doc.Body, rootSchema, pos).what # "none"

\* hover at a position inside an unknown attribute or an unknown block fails
\* with the PositionalError that names it
HoverNamesUnknown ==
    HoverReturned =>
        LET u == UnknownAt(doc.Body, rootSchema, result.pos)
        IN  /\ u.what = "attribute" =>
                  /\ result.err = "PositionalError"
                  /\ result.msg = <<"unknown attribute", u.name>>
                  /\ result.data.isNil
            /\ u.what = "block" =>
                  /\ result.err = "PositionalError"
                  /\ result.msg = <<"unknown block type", u.name>>
                  /\ result.data.isNil

\* C17 as stated: hover at any position inside an unknown attribute or an
\* unknown block fails with the PositionalError that names it, and
\* SemanticTokensInFile on a document with such a construct returns no error
C17_UnknownConstructErrors ==
    /\ HoverNamesUnknown
    /\ (result.op = "tokens" /\ Registered /\ ~rootSchema.isNil /\ HasUnknown) => result.err = ""

\* the tuple element lookup of tokensForTupleConsExpr aside, C17 holds: the
\* tokens of a document with an unknown construct are returned whenever the
\* walk meets no sequence construction longer than its tuple type
C17_UnknownConstructSkipped ==
    /\ HoverNamesUnknown
    /\ (result.op = "tokens" /\ Registered /\ ~rootSchema.isNil /\ HasUnknown)
           => result.err \in {"", "panic"}
    /\ (result.op = "tokens" /\ result.err = "panic")
           => \A ord \in AttrOrders : tokensInFile(ord).panic

\* hover on the "=" of an unknown attribute inside a recognized block
C17_Witness ==
    /\ HoverReturned
    /\ UnknownAt(doc.Body, rootSchema, result.pos).what = "attribute"
    /\ \E i \in DOMAIN doc.Body.Blocks : ContainsPos(doc.Body.Blocks[i].Body.rng, result.pos)
    /\ \A bd \in AllBodies(doc.Body) : \A n \in DOMAIN bd.Attributes :
          ~ContainsPos(bd.Attributes[n].NameRange, result.pos)
          /\ ~ContainsPos(bd.Attributes[n].Expr.rng, result.pos)

\* the label whose range holds pos, when every block around it is recognized
\* and its index lies within the label schemas of its block
NoLabel == [found |-> FALSE]
RECURSIVE LabelAt(_, _, _)
LabelAt(body, schema, pos) ==
    IF schema.isNil THEN NoLabel
    ELSE LET blocks == {i \in DOMAIN body.Blocks :
                           /\ ContainsPos(body.Blocks[i].rng, pos)
                           /\ body.Blocks[i].Type \in DOMAIN schema.Blocks}
         IN  IF blocks = {} THEN NoLabel
             ELSE LET b == body.Blocks[CHOOSE i \in blocks : TRUE]
                      bs == schema.Blocks[b.Type]
                      ls == {l \in DOMAIN b.LabelRanges : ContainsPos(b.LabelRanges[l], pos)}
                  IN  IF ls # {}
                      THEN LET l == CHOOSE k \in ls : TRUE
                           IN  IF l > Len(bs.Labels) THEN NoLabel
                               ELSE [found |-> TRUE, block |-> b, schema |-> bs, index |-> l]
                      ELSE IF ContainsPos(b.Body.rng, pos)
                      THEN LabelAt(b.Body, mergeBlockBodySchemas(b, bs), pos)
                      ELSE NoLabel

\* a separator and a text, nothing when the text is empty
Opt(sep, text) == IF text = "" THEN <<>> ELSE <<sep, text>>

\* C18: hover on a label that is a dependency key of a block whose keys
\* select a dependent body schema shows the label's value with that schema's
\* detail, or the label schema's name when the detail is empty, and that
\* schema's description, or the label schema's when it is empty; hover on any
\* other label shows the value with the label schema's name and description
C18_LabelContent ==
    HoverReturned =>
        LET at == LabelAt(doc.Body, rootSchema, result.pos)
        IN  at.found =>
                LET value == at.block.Labels[at.index]
                    label == at.schema.Labels[at.index]
                    dep == DependentBodySchema(at.schema, dependencyKeysFromBlock(at.block, at.schema))
                IN  /\ result.err = ""
                    /\ result.data.Range = at.block.LabelRanges[at.index]
                    /\ result.data.Content =
                           IF label.IsDepKey /\ dep.found
                           THEN <<Tick, value, Tick>>
                                \o Opt(" ", IF dep.schema.Detail # "" THEN dep.schema.Detail ELSE label.Name)
                                \o Opt("\n\n", IF dep.schema.Description # ""
                                               THEN dep.schema.Description ELSE label.Description)
                           ELSE <<"\"", value, "\"">>
                                \o (IF label.Name # "" THEN <<" (", label.Name, ")">> ELSE <<>>)
                                \o Opt("\n\n", label.Description)

\* hover on a dependency-key label of a block whose dependent body schema
\* has neither detail nor description while the label schema has both
C18_Witness ==
    /\ HoverReturned
    /\ LET at == LabelAt(doc.Body, rootSchema, result.pos)
       IN  /\ at.found
           /\ at.schema.Labels[at.index].IsDepKey
           /\ at.schema.Labels[at.index].Description # ""
           /\ LET dep == DependentBodySchema(at.schema, dependencyKeysFromBlock(at.block, at.schema))
              IN  dep.found /\ dep.schema.Detail = "" /\ dep.schema.Description = ""

\* the tokens of the elements of a sequence construction that the tuple type
\* t has an element type for, the elements past its length skipped
RECURSIVE TupleTokensInRange(_, _, _)
TupleTokensInRange(exprs, i, t) ==
    IF i > Len(exprs) \/ i > Len(t.elems) THEN <<>>
    ELSE tokenForTypedExpression(exprs[i], t.elems[i]).toks \o TupleTokensInRange(exprs, i + 1, t)

\* C21 as stated: the tokens of a sequence construction matched to a
\* tuple-typed constraint are returned without a runtime failure, the
\* elements past the length of the tuple type skipped, also when the tuple
\* type is empty
C21_TupleTokensComplete ==
    (/\ eout.tokens.done
     /\ ValueExpr.kind = "TupleConsExpr"
     /\ Chosen(ValueExpr, ein.constraints).found
     /\ IsTupleType(Chosen(ValueExpr, ein.constraints).Type)) =>
        /\ ~eout.tokens.ret.panic
        /\ eout.tokens.ret.toks =
               <<NameToken>> \o TupleTokensInRange(ValueExpr.Exprs, 1, Chosen(ValueExpr, ein.constraints).Type)

\* the part of C21 the code meets: a sequence construction with no more
\* elements than its tuple type gets the tokens of its elements, and one with
\* more elements fails
C21_FailsPastTupleLength ==
    (/\ eout.tokens.done
     /\ ValueExpr.kind = "TupleConsExpr"
     /\ Chosen(ValueExpr, ein.constraints).found
     /\ IsTupleType(Chosen(ValueExpr, ein.constraints).Type)) =>
        LET t == Chosen(ValueExpr, ein.constraints).Type
        IN  IF Len(ValueExpr.Exprs) <= Len(t.elems)
            THEN /\ ~eout.tokens.ret.panic
                 /\ eout.tokens.ret.toks = <<NameToken>> \o TupleTokensInRange(ValueExpr.Exprs, 1, t)
            ELSE eout.tokens.ret.panic

(***************************************************************************)
(* Two runs of a query                                                     *)
(***************************************************************************)
\* the token sequences the runs of SemanticTokensInFile on the document and
\* schema of the state can return: one per order of iterating the attribute
\* maps and per order sort.Slice leaves the tokens of one start offset in
TokenRuns == UNION {sortTokens(tokensInFile(ord).toks) : ord \in AttrOrders}

\* the attributes of a body that a position lies in
AttributesAt(body, pos) == {n \in DOMAIN body.Attributes : ContainsPos(body.Attributes[n].rng, pos)}

\* the loop of hoverAtPos over the attribute map finds the same attribute in
\* every order: no position lies in two attributes of one body
HoverOrderFree == \A body \in AllBodies(doc.Body) : Cardinality(AttributesAt(body, result.pos)) <= 1

\* the number of times a token occurs in a sequence
Occurrences(toks, t) == Cardinality({i \in DOMAIN toks : toks[i] = t})

SameStart(t, u) == t.Range.s = u.Range.s

\* two tokens of one sequence that differ and start at the same offset
HasTie(toks) == \E i, j \in DOMAIN toks : toks[i] # toks[j] /\ SameStart(toks[i], toks[j])

\* C22 as stated: a second run of SemanticTokensInFile on the same document
\* and schema returns the identical token sequence, whatever the order of
\* iterating the attribute maps and also when two tokens share a start
\* offset, and a second run of HoverAtPos at the same position finds the same
\* attribute and so returns the same result
C22_RunsAgree ==
    /\ (TokensReturned /\ Registered /\ ~rootSchema.isNil) =>
           \A run \in TokenRuns : run = result.tokens
    /\ HoverReturned => HoverOrderFree

\* the part of C22 the code meets: two runs return the same tokens, each as
\* many times, in sequences that are equal except for the order of the tokens
\* that start at one offset, and identical when no two distinct tokens share a
\* start offset; two runs of HoverAtPos agree
C22_RunsAgreeUpToTies ==
    /\ (TokensReturned /\ Registered /\ ~rootSchema.isNil) =>
           \A run \in TokenRuns :
               /\ Len(run) = Len(result.tokens)
               /\ \A i \in DOMAIN run :
                      /\ SameStart(run[i], result.tokens[i])
                      /\ Occurrences(run, run[i]) = Occurrences(result.tokens, run[i])
               /\ ~HasTie(result.tokens) => run = result.tokens
    /\ HoverReturned => HoverOrderFree

\* a run has returned tokens in one order where another run returns them in
\* another order
C22_TwoOrders ==
    /\ TokensReturned /\ Registered /\ ~rootSchema.isNil
    /\ \E run \in TokenRuns : run # result.tokens

\* a hover query has returned content for a position inside an attribute of
\* a body that has more than one attribute
C22_HoverInOneOfTwo ==
    /\ HoverReturned /\ result.err = "" /\ result.data # NilHover
    /\ \E body \in AllBodies(doc.Body) :
           /\ Cardinality(DOMAIN body.Attributes) > 1
           /\ AttributesAt(body, result.pos) # {}
====
